---- MODULE Spec2Model ----
(***************************************************************************)
(* Request-observability pipeline of go-chi-observability-template:        *)
(* the chi router, the RequestID / Tracing / Logging middlewares, the      *)
(* calculator handlers (binary operations and chain), RecordError and      *)
(* WriteError.  Every request is handled on its own goroutine; the         *)
(* requests interleave at the granularity of the actions below and share   *)
(* only the metric instruments and the request-id generator.               *)
(***************************************************************************)
EXTENDS Integers, Sequences, FiniteSets, TLC

(* ------------------------------ bounds --------------------------------- *)

\* Largest finite magnitude of the model's float64 (the range is scaled
\* down; inside the range arithmetic is exact, outside it is +Inf / -Inf).
MaxFloat == 4

\* Longest chain (number of steps) sent when one request is in flight.
MaxSteps == 3

\* Longest chain sent when several requests are in flight together.
MaxConcSteps == 1

\* Longest list of spans a context handed to LoggerWithTrace is taken from.
MaxSpans == 2

\* The request slots: at most two requests are in flight together.
Reqs == {1, 2}

\* The values uuid.New().String() can return.
IdPool == {"uuid-a", "uuid-b"}

(* ------------------------------ float64 -------------------------------- *)

RECURSIVE GCD(_, _)
GCD(a, b) == IF b = 0 THEN a ELSE GCD(b, a % b)

Abs(n) == IF n < 0 THEN -n ELSE n

Sign(n) == IF n < 0 THEN -1 ELSE 1

NaN == [k |-> "nan", n |-> 0, d |-> 1]

Inf(s) == [k |-> "inf", n |-> s, d |-> 1]

\* The float64 nearest to n/d (d > 0): beyond the range it is an infinity.
Norm(n, d) ==
    IF Abs(n) > MaxFloat * d
    THEN Inf(Sign(n))
    ELSE LET g == GCD(Abs(n), d)
         IN  IF n = 0 THEN [k |-> "fin", n |-> 0, d |-> 1]
                      ELSE [k |-> "fin", n |-> n \div g, d |-> d \div g]

Num(n) == Norm(n, 1)

IsNaN(x) == x.k = "nan"

IsInf(x) == x.k = "inf"

IsZero(x) == x.k = "fin" /\ x.n = 0

FNeg(x) == IF x.k = "nan" THEN NaN ELSE [x EXCEPT !.n = -x.n]

FAdd(x, y) ==
    IF IsNaN(x) \/ IsNaN(y) THEN NaN
    ELSE IF IsInf(x) /\ IsInf(y) THEN (IF x.n = y.n THEN x ELSE NaN)
    ELSE IF IsInf(x) THEN x
    ELSE IF IsInf(y) THEN y
    ELSE Norm(x.n * y.d + y.n * x.d, x.d * y.d)

FSub(x, y) == FAdd(x, FNeg(y))

FMul(x, y) ==
    IF IsNaN(x) \/ IsNaN(y) THEN NaN
    ELSE IF IsInf(x) \/ IsInf(y)
         THEN (IF IsZero(x) \/ IsZero(y) THEN NaN
               ELSE Inf(Sign(x.n) * Sign(y.n)))
    ELSE Norm(x.n * y.n, x.d * y.d)

FDiv(x, y) ==
    IF IsNaN(x) \/ IsNaN(y) THEN NaN
    ELSE IF IsInf(x) THEN (IF IsInf(y) THEN NaN ELSE Inf(Sign(x.n) * Sign(y.n)))
    ELSE IF IsInf(y) THEN Num(0)
    ELSE IF IsZero(y) THEN (IF IsZero(x) THEN NaN ELSE Inf(Sign(x.n)))
    ELSE Norm(x.n * y.d * Sign(y.n), x.d * Abs(y.n))

\* fmt's %g of a float64.
FmtG(x) ==
    IF IsNaN(x) THEN "NaN"
    ELSE IF IsInf(x) THEN (IF x.n > 0 THEN "+Inf" ELSE "-Inf")
    ELSE IF x.d = 1 THEN ToString(x.n)
    ELSE ToString(x.n) \o "/" \o ToString(x.d)

(* ------------------------- encoding/json ------------------------------- *)

\* The number literals a request body is written with; a literal beyond the
\* float64 range (such as 1e999) is the last one.
NumTokens == {0, 2, MaxFloat, 2 * MaxFloat}

\* A ParseFloat that returns +Inf for a literal beyond the range, without
\* an error.
ParseFloat_Saturating(t) ==
    IF t > MaxFloat THEN [err |-> FALSE, val |-> Inf(1)]
                    ELSE [err |-> FALSE, val |-> Num(t)]

\* strconv.ParseFloat as json.Decoder uses it: a range error leaves the
\* field at its zero value and makes Decode return an error.
ParseFloat(t) ==
    IF t > MaxFloat THEN [err |-> TRUE, val |-> Num(0)]
                    ELSE [err |-> FALSE, val |-> Num(t)]

\* Bodies of POST /calculator/{add,subtract,multiply,divide}: not JSON at
\* all, or an object with the number literals a and b.
BinaryBodies ==
    {[ok |-> FALSE, a |-> 0, b |-> 0]}
        \cup {[ok |-> TRUE, a |-> x, b |-> y] :
                x \in NumTokens \ {2 * MaxFloat}, y \in NumTokens \ {MaxFloat}}

\* The bodies sent when several requests are in flight together: malformed,
\* a plain pair, a zero divisor and a pair whose sum leaves the range.
ConcBinaryBodies ==
    {[ok |-> FALSE, a |-> 0, b |-> 0]}
        \cup {[ok |-> TRUE, a |-> 2, b |-> y] : y \in {0, 2}}
        \cup {[ok |-> TRUE, a |-> MaxFloat, b |-> 2]}

\* json.NewDecoder(r.Body).Decode(&req) for a CalcRequest.
DecodeCalcRequest(body) ==
    LET pa == ParseFloat(body.a)
        pb == ParseFloat(body.b)
    IN  [err |-> ~body.ok \/ pa.err \/ pb.err,
         req |-> [A |-> pa.val, B |-> pb.val]]

\* The operators a chain step is sent with; "pow" is not supported.
StepOps == {"add", "subtract", "multiply", "divide", "pow"}

\* The steps a chain body is built from: every operator with operand 2,
\* divide by 0, and a step whose operand is beyond the float64 range.
StepTokens ==
    {[op |-> o, value |-> 2] : o \in StepOps}
        \cup {[op |-> "divide", value |-> 0], [op |-> "add", value |-> 2 * MaxFloat]}

\* The steps of the chains sent when several requests are in flight
\* together: one that succeeds, one that fails, one that is unsupported.
ConcStepTokens ==
    {[op |-> "add", value |-> 2], [op |-> "divide", value |-> 0],
     [op |-> "pow", value |-> 2]}

RECURSIVE SeqsUpTo(_, _)
SeqsUpTo(S, n) ==
    IF n = 0 THEN {<<>>}
    ELSE LET shorter == SeqsUpTo(S, n - 1)
         IN  shorter \cup {Append(q, x) : q \in {t \in shorter : Len(t) = n - 1}, x \in S}

\* Bodies of POST /calculator/chain with at most n steps drawn from T.
ChainBodies(T, n) ==
    {[ok |-> FALSE, initial |-> 0, steps |-> <<>>]}
        \cup {[ok |-> TRUE, initial |-> x, steps |-> q] :
                x \in {2, MaxFloat}, q \in SeqsUpTo(T, n)}

\* json.NewDecoder(r.Body).Decode(&req) for a ChainRequest.
DecodeChainRequest(body) ==
    LET pi == ParseFloat(body.initial)
        ps == [j \in 1..Len(body.steps) |-> ParseFloat(body.steps[j].value)]
    IN  [err |-> ~body.ok \/ pi.err \/ (\E j \in 1..Len(body.steps) : ps[j].err),
         req |-> [Initial |-> pi.val,
                  Steps |-> [j \in 1..Len(body.steps) |->
                               [Op |-> body.steps[j].op, Value |-> ps[j].val]]]]

Finite(x) == x.k = "fin"

\* json.NewEncoder(w).Encode(v) for a map[string]string: the object itself.
\* The result is the sequence of documents handed to w.Write.
EncodeMap(m) == <<m>>

\* An Encode of a CalcResponse whose RequestID field has no json tag to be
\* written under.
EncodeCalcResponse_NoRequestID(v) ==
    IF Finite(v.A) /\ Finite(v.B) /\ Finite(v.Result)
    THEN <<[operation |-> v.Operation, a |-> v.A, b |-> v.B, result |-> v.Result]>>
    ELSE <<>>

\* Encode of a CalcResponse: the struct's fields under their json tags.  A
\* NaN or infinite float64 is an UnsupportedValueError: nothing is written.
EncodeCalcResponse(v) ==
    IF Finite(v.A) /\ Finite(v.B) /\ Finite(v.Result)
    THEN <<[operation |-> v.Operation, a |-> v.A, b |-> v.B,
            result |-> v.Result, request_id |-> v.RequestID]>>
    ELSE <<>>

\* Encode of a ChainResponse, its ChainResult entries included.
EncodeChainResponse(v) ==
    IF /\ Finite(v.Initial) /\ Finite(v.Result)
       /\ \A j \in 1..Len(v.Steps) : Finite(v.Steps[j].Value) /\ Finite(v.Steps[j].Result)
    THEN <<[initial |-> v.Initial,
            steps |-> [j \in 1..Len(v.Steps) |->
                         [op |-> v.Steps[j].Op, value |-> v.Steps[j].Value,
                          result |-> v.Steps[j].Result]],
            result |-> v.Result, request_id |-> v.RequestID]>>
    ELSE <<>>

(* ------------------------- http.ResponseWriter ------------------------- *)

HeaderKeys == {"X-Request-ID", "Content-Type"}

\* A fresh response: no header set ("" is what Header.Get returns for an
\* absent key), no status line written, empty body.
NewResponseWriter ==
    [header |-> [key \in HeaderKeys |-> ""],
     sent |-> [key \in HeaderKeys |-> ""],
     status |-> 0, wroteHeader |-> 0, body |-> <<>>]

\* w.Header().Set(key, val)
HeaderSet(rw, key, val) == [rw EXCEPT !.header[key] = val]

\* w.WriteHeader(status): the first call sends the status line with the
\* headers set so far; a later call changes nothing.
WriteHeader(rw, status) ==
    IF rw.wroteHeader > 0
    THEN [rw EXCEPT !.wroteHeader = @ + 1]
    ELSE [rw EXCEPT !.status = status, !.sent = rw.header, !.wroteHeader = 1]

\* w.Write of each document in docs (a Write before WriteHeader sends 200).
WriteDocs(rw, docs) ==
    IF docs = <<>> THEN rw
    ELSE LET started == IF rw.wroteHeader > 0 THEN rw
                        ELSE [rw EXCEPT !.status = 200, !.sent = rw.header,
                                         !.wroteHeader = 1]
         IN  [started EXCEPT !.body = @ \o docs]

(* ------------------------- context.Context ----------------------------- *)

\* context.Background(): no value under RequestIDKey, no span.
Background == [rid |-> [t |-> "none", v |-> ""], span |-> 0]

\* ContextWithRequestID that returns its argument: the id is never stored.
ContextWithRequestID_Lost(c, id) == c

ContextWithRequestID(c, id) == [c EXCEPT !.rid = [t |-> "string", v |-> id]]

\* A lookup without the type assertion: whatever is stored is returned.
RequestIDFromContext_Unchecked(c) == c.rid.v

\* The comma-ok type assertion: "" unless the value is a string.
RequestIDFromContext(c) == IF c.rid.t = "string" THEN c.rid.v ELSE ""

\* A generator that may return a value it returned before.
NewRequestID_Reuse(used) == IdPool

\* uuid.New().String(): a value no earlier call returned.
NewRequestID(used) == IdPool \ used

(* ------------------------------ spans ---------------------------------- *)

TraceIDOf(r) == "trace-" \o ToString(r)

SpanIDOf(r, idx) == "span-" \o ToString(r) \o "." \o ToString(idx)

\* A tracer.Start that hangs the new span under the span started last,
\* as when the loop kept the context of the previous step.
StartSpan_UnderLatest(r, ss, c, name, attrs) ==
    Append(ss, [name |-> name, parent |-> Len(ss),
                trace_id |-> IF Len(ss) = 0 THEN TraceIDOf(r) ELSE ss[Len(ss)].trace_id,
                span_id |-> SpanIDOf(r, Len(ss) + 1),
                attrs |-> attrs, events |-> <<>>, errs |-> <<>>,
                status |-> "Unset", desc |-> <<>>, ended |-> 0, late |-> 0])

\* tracer.Start(c, name, WithAttributes(attrs)) in request r, whose spans
\* so far are ss: the new span is a child of the span c carries, or the
\* root of a new trace when c carries none.
StartSpan(r, ss, c, name, attrs) ==
    Append(ss, [name |-> name, parent |-> c.span,
                trace_id |-> IF c.span = 0 THEN TraceIDOf(r) ELSE ss[c.span].trace_id,
                span_id |-> SpanIDOf(r, Len(ss) + 1),
                attrs |-> attrs, events |-> <<>>, errs |-> <<>>,
                status |-> "Unset", desc |-> <<>>, ended |-> 0, late |-> 0])

\* What every mutation of an ended span does: nothing, but it is counted.
Late(sp) == [sp EXCEPT !.late = @ + 1]

\* span.RecordError(err)
SpanRecordError(sp, err) ==
    IF sp.ended > 0 THEN Late(sp) ELSE [sp EXCEPT !.errs = Append(@, err)]

\* A SetStatus that only ever records an error status.
SpanSetStatus_OkDropped(sp, code, desc) ==
    IF sp.ended > 0 THEN Late(sp)
    ELSE IF sp.status = "Ok" \/ code # "Error" THEN sp
    ELSE [sp EXCEPT !.status = code, !.desc = desc]

\* span.SetStatus(code, desc): Ok is final, and an Ok carries no description.
SpanSetStatus(sp, code, desc) ==
    IF sp.ended > 0 THEN Late(sp)
    ELSE IF sp.status = "Ok" THEN sp
    ELSE [sp EXCEPT !.status = code, !.desc = IF code = "Error" THEN desc ELSE <<>>]

\* span.SetAttributes(...): the keys in attrs are set.
SpanSetAttributes(sp, attrs) ==
    IF sp.ended > 0 THEN Late(sp)
    ELSE [sp EXCEPT !.attrs = [key \in DOMAIN attrs \cup DOMAIN sp.attrs |->
                                 IF key \in DOMAIN attrs THEN attrs[key] ELSE sp.attrs[key]]]

\* An AddEvent that drops the attributes it is given.
SpanAddEvent_NoAttributes(sp, name, attrs) ==
    IF sp.ended > 0 THEN Late(sp)
    ELSE [sp EXCEPT !.events = Append(@, [name |-> name, attrs |-> <<>>])]

\* span.AddEvent(name, trace.WithAttributes(attrs...)); durations are left
\* out of attrs.
SpanAddEvent(sp, name, attrs) ==
    IF sp.ended > 0 THEN Late(sp)
    ELSE [sp EXCEPT !.events = Append(@, [name |-> name, attrs |-> attrs])]

\* span.End()
SpanEnd(sp) == [sp EXCEPT !.ended = @ + 1]

(* ------------------------------ logger --------------------------------- *)

\* observability.Logger, the base logger: it adds no field of its own.
Logger == [traced |-> FALSE, trace_id |-> "", span_id |-> ""]

\* A LoggerWithTrace that takes the ids of the first span of the request.
LoggerWithTrace_FirstSpan(ss, c) ==
    IF c.span = 0 THEN Logger
    ELSE [traced |-> TRUE, trace_id |-> ss[1].trace_id, span_id |-> ss[1].span_id]

\* LoggerWithTrace(c) in a request whose spans are ss: the base logger
\* when c carries no valid span, else Logger.With(context, trace_id, span_id).
LoggerWithTrace(ss, c) ==
    IF c.span = 0 THEN Logger
    ELSE [traced |-> TRUE,
          trace_id |-> ss[c.span].trace_id,
          span_id |-> ss[c.span].span_id]

\* One record emitted by logger lg: level, message and the fields of the
\* call, next to the fields the logger itself adds.
LogRecord(lg, level, msg, fields) ==
    [level |-> level, msg |-> msg, logger |-> lg, fields |-> fields]

\* shouldTraceRequest(r) for a request path.
untracedPaths == {"/metrics", "/health"}

shouldTraceRequest(p) == p \notin untracedPaths

(* ------------------------------ router --------------------------------- *)

BinaryPaths ==
    {"/calculator/add", "/calculator/subtract", "/calculator/multiply", "/calculator/divide"}

Paths == {"/metrics", "/health", "/calculator/chain"} \cup BinaryPaths

\* calculator.RegisterRoutes and the two routes of NewRouter: the handler
\* mounted at path p.
HandlerAt(p) ==
    CASE p = "/metrics" -> "PrometheusHandler"
      [] p = "/health" -> "Health"
      [] p = "/calculator/add" -> "Add"
      [] p = "/calculator/subtract" -> "Subtract"
      [] p = "/calculator/multiply" -> "Multiply"
      [] p = "/calculator/divide" -> "Divide"
      [] p = "/calculator/chain" -> "Chain"

\* A NewRouter whose group uses LoggingMiddleware before TracingMiddleware.
NewRouter_LoggingBeforeTracing(p) ==
    IF p \in {"/metrics", "/health"}
    THEN <<HandlerAt(p)>>
    ELSE <<"RequestIDMiddleware", "LoggingMiddleware", "TracingMiddleware", HandlerAt(p)>>

\* NewRouter: the stages a request for path p runs through, outermost
\* first.  /metrics and /health are registered on the root router, outside
\* the group that uses the three middlewares.
NewRouter(p) ==
    IF p \in {"/metrics", "/health"}
    THEN <<HandlerAt(p)>>
    ELSE <<"RequestIDMiddleware", "TracingMiddleware", "LoggingMiddleware", HandlerAt(p)>>

\* A return path on which LoggingMiddleware has nothing left to do after
\* next.ServeHTTP.
RECURSIVE Leave_NoCompletionLog(_, _)
Leave_NoCompletionLog(rt, k) ==
    IF k = 0 THEN [pc |-> "done", k |-> 0]
    ELSE IF rt[k] = "TracingMiddleware" THEN [pc |-> "TracingDone", k |-> k]
    ELSE Leave_NoCompletionLog(rt, k - 1)

\* The stage that runs when stage k of route rt has returned: the part of
\* the nearest enclosing middleware that follows its next.ServeHTTP call
\* (RequestIDMiddleware has none), or the end of the request.
RECURSIVE Leave(_, _)
Leave(rt, k) ==
    IF k = 0 THEN [pc |-> "done", k |-> 0]
    ELSE IF rt[k] = "LoggingMiddleware" THEN [pc |-> "LoggingDone", k |-> k]
    ELSE IF rt[k] = "TracingMiddleware" THEN [pc |-> "TracingDone", k |-> k]
    ELSE Leave(rt, k - 1)

\* The stage that runs when stage k of route rt calls next.ServeHTTP.
Enter(rt, k) == [pc |-> rt[k + 1], k |-> k + 1]

(* ------------------------------ state ---------------------------------- *)

VARIABLES
    mainPc,        \* the statement of main the process is about to run
    srvPc,         \* where the goroutine that runs srv.ListenAndServe() is
    drained,       \* the deferred shutdown closures that have run, in order
    initialized,   \* the globals the Init functions have set so far
    live,          \* the request slots a client sends a request on
    pc,            \* pc[r]: the stage request r is about to run
    depth,         \* depth[r]: index of that stage in route[r]
    path,          \* path[r]: r.URL.Path
    route,         \* route[r]: the stages the router dispatches r through
    ctx,           \* ctx[r]: r.Context() as the middlewares hand it down
    w,             \* w[r]: the http.ResponseWriter of request r
    mwLogger,      \* mwLogger[r]: the logger LoggingMiddleware derived
    h,             \* h[r]: the local variables of the handler of request r
    spans,         \* spans[r]: the spans started for request r, in order
    logs,          \* logs[r]: the log records emitted for request r, in order
    fx,            \* fx[r]: every effect of request r, in program order
    issued,        \* the request ids NewRequestID has returned
    opsCounter,    \* calculator.operations.total, per operation attribute
    opsHistogram,  \* calculator.operation.duration: samples per attribute
    errorCounter,  \* calculator.errors.total, per operation attribute
    resultGauge    \* calculator.last_result, per operation attribute

vars ==
    <<mainPc, srvPc, drained, initialized, live, pc, depth, path, route, ctx, w, mwLogger, h,
      spans, logs, fx, issued, opsCounter, opsHistogram, errorCounter, resultGauge>>

\* The values of the "operation" attribute of a metric sample.
OpAttrs == StepOps \cup {"chain"}

\* No sample recorded on the gauge yet.
NoSample == [set |-> FALSE, val |-> Num(0)]

\* The handler's local variables before the handler runs.
NoFrame ==
    [entered |-> FALSE, ctx |-> Background, logger |-> Logger, requestID |-> "",
     span |-> 0, body |-> [ok |-> FALSE],
     req |-> [Initial |-> Num(0), Steps |-> <<>>],
     running |-> Num(0), results |-> <<>>, i |-> 0, failedAt |-> -1]

Range(q) == {q[j] : j \in DOMAIN q}

\* One effect of a request: its kind, the span index, status code or step
\* index it is about, and the name it is about.
Ef(kind, i, a) == [k |-> kind, i |-> i, a |-> a]

\* The bodies the clients send: fewer, and shorter chains, when requests
\* run together.
BinaryBodiesOf(lv) ==
    IF Cardinality(lv) = 1 THEN BinaryBodies ELSE ConcBinaryBodies

ChainBodiesOf(lv) ==
    IF Cardinality(lv) = 1 THEN ChainBodies(StepTokens, MaxSteps)
                           ELSE ChainBodies(ConcStepTokens, MaxConcSteps)

\* The package-level variables main's Init calls set: the logger, the two
\* global providers and the calculator's four instruments.
Instruments == <<"opsCounter", "opsHistogram", "errorCounter", "resultGauge">>

Globals == {"Logger", "TracerProvider", "MeterProvider"} \cup Range(Instruments)

\* What initMetrics sets when nothing fails: the four instruments and the
\* global meter provider.
MeterGlobals == Range(Instruments) \cup {"MeterProvider"}

Init ==
    /\ mainPc = "InitLogger"
    /\ srvPc = "none"
    /\ drained = <<>>
    /\ initialized = {}
    /\ live \in {{1}, Reqs}
    /\ pc = [r \in Reqs |-> "new"]
    /\ depth = [r \in Reqs |-> 0]
    /\ path = [r \in Reqs |-> ""]
    /\ route = [r \in Reqs |-> <<>>]
    /\ ctx = [r \in Reqs |-> Background]
    /\ w = [r \in Reqs |-> NewResponseWriter]
    /\ mwLogger = [r \in Reqs |-> Logger]
    /\ h = [r \in Reqs |-> NoFrame]
    /\ spans = [r \in Reqs |-> <<>>]
    /\ logs = [r \in Reqs |-> <<>>]
    /\ fx = [r \in Reqs |-> <<>>]
    /\ issued = {}
    /\ opsCounter = [o \in OpAttrs |-> 0]
    /\ opsHistogram = [o \in OpAttrs |-> 0]
    /\ errorCounter = [o \in OpAttrs |-> 0]
    /\ resultGauge = [o \in OpAttrs |-> NoSample]

(* ------------------------------ main ----------------------------------- *)

\* One Init call of main: it sets the globals in sets and main goes on to
\* next, or it returns an error after setting the globals in part and main
\* panics.
InitCall(at, sets, part, next) ==
    /\ mainPc = at
    /\ \/ initialized' = initialized \cup sets /\ mainPc' = next
       \/ initialized' = initialized \cup part /\ mainPc' = "panic"
    /\ UNCHANGED <<srvPc, drained, live, pc, depth, path, route, ctx, w, mwLogger, h, spans,
                   logs, fx, issued, opsCounter, opsHistogram, errorCounter, resultGauge>>

\* observability.InitLogger()
InitLogger == InitCall("InitLogger", {"Logger"}, {}, "InitTracing")

\* observability.InitTracing(ctx)
InitTracing == InitCall("InitTracing", {"TracerProvider"}, {}, "initMetrics")

\* initMetrics that drops the error of calculator.InitMetrics.
initMetrics_IgnoreError ==
    \E n \in 0..Len(Instruments) :
        InitCall("initMetrics",
                 {"MeterProvider"} \cup {Instruments[j] : j \in 1..n}, {}, "ListenAndServe")

\* initMetrics(ctx): observability.InitMetrics, then calculator.InitMetrics,
\* which creates the four instruments in order and stops at the first
\* that fails (n = 0: the provider failed; else instrument n failed).
initMetrics ==
    \E n \in 0..Len(Instruments) :
        InitCall("initMetrics", MeterGlobals,
                 IF n = 0 THEN {} ELSE {"MeterProvider"} \cup {Instruments[j] : j \in 1..n - 1},
                 "ListenAndServe")

\* server.NewRouter() and the goroutine that runs srv.ListenAndServe():
\* from here on connections are accepted.
ListenAndServe ==
    /\ mainPc = "ListenAndServe"
    /\ mainPc' = "serving"
    /\ srvPc' = "accepting"
    /\ UNCHANGED <<drained, initialized, live, pc, depth, path, route, ctx, w, mwLogger, h, spans,
                   logs, fx, issued, opsCounter, opsHistogram, errorCounter, resultGauge>>

\* The process runs: no goroutine has panicked and main has not returned.
Alive == mainPc \notin {"panic", "exited"} /\ srvPc # "panicked"

\* The request stages left to the handlers once main waits in
\* waitForShutdown.
RequestVars ==
    <<initialized, live, pc, depth, path, route, ctx, w, mwLogger, h, spans, logs, fx,
      issued, opsCounter, opsHistogram, errorCounter, resultGauge>>

\* waitForShutdown up to "<-stop": SIGINT or SIGTERM arrives.  The signal is
\* sent to an idle server, one that no client has sent a request to (what
\* follows the signal reads nothing that a request leaves behind); from
\* then on no client sends one.
Signal ==
    /\ mainPc = "serving"
    /\ \A r \in Reqs : pc[r] = "new"
    /\ mainPc' = "Shutdown"
    /\ UNCHANGED <<srvPc, drained>>
    /\ UNCHANGED RequestVars

\* srv.Shutdown(ctx) with the 5 s context: the listeners are closed, which
\* makes ListenAndServe return ErrServerClosed in its goroutine; with no
\* connection active Shutdown returns at once, and waitForShutdown returns to
\* main, whose deferred calls are next.
Shutdown ==
    /\ mainPc = "Shutdown" /\ Alive
    /\ mainPc' = "metricShutdown"
    /\ srvPc' = "returned"
    /\ UNCHANGED drained
    /\ UNCHANGED RequestVars

\* The goroutine of main after srv.ListenAndServe() has returned: the error
\* is not nil (it is ErrServerClosed), so the goroutine panics and the
\* runtime ends the process, whatever main is doing.
ServeReturned ==
    /\ srvPc = "returned" /\ Alive
    /\ srvPc' = "panicked"
    /\ UNCHANGED <<mainPc, drained>>
    /\ UNCHANGED RequestVars

\* The deferred calls of main, last deferred first.
Deferred == <<"metricShutdown", "traceShutdown", "SyncLogger">>

\* main runs its next deferred call (its result is dropped); after the
\* last one main returns and the process exits.
RunDeferred ==
    /\ Alive
    /\ \E j \in DOMAIN Deferred :
         /\ mainPc = Deferred[j]
         /\ drained' = Append(drained, Deferred[j])
         /\ mainPc' = IF j = Len(Deferred) THEN "exited" ELSE Deferred[j + 1]
    /\ UNCHANGED srvPc
    /\ UNCHANGED RequestVars

(* --------------------------- the middlewares --------------------------- *)

\* Stage k of request r hands over to the next stage / returns to its caller.
GoIn(r) ==
    LET nx == Enter(route[r], depth[r])
    IN  pc' = [pc EXCEPT ![r] = nx.pc] /\ depth' = [depth EXCEPT ![r] = nx.k]

GoOut(r) ==
    LET nx == Leave(route[r], depth[r] - 1)
    IN  pc' = [pc EXCEPT ![r] = nx.pc] /\ depth' = [depth EXCEPT ![r] = nx.k]

\* A client sends a request for path p; the router picks its stages.
Arrive(r) ==
    /\ mainPc = "serving"
    /\ r \in live
    /\ pc[r] = "new"
    /\ \E p \in Paths :
         /\ path' = [path EXCEPT ![r] = p]
         /\ route' = [route EXCEPT ![r] = NewRouter(p)]
         /\ pc' = [pc EXCEPT ![r] = NewRouter(p)[1]]
         /\ depth' = [depth EXCEPT ![r] = 1]
    /\ UNCHANGED <<mainPc, srvPc, drained, initialized, live, ctx, w, mwLogger, h, spans, logs, fx, issued,
                   opsCounter, opsHistogram, errorCounter, resultGauge>>

RequestIDMiddleware(r) ==
    /\ pc[r] = "RequestIDMiddleware"
    /\ \E requestID \in NewRequestID(issued) :
         /\ issued' = issued \cup {requestID}
         /\ ctx' = [ctx EXCEPT ![r] = ContextWithRequestID(@, requestID)]
         /\ w' = [w EXCEPT ![r] = HeaderSet(@, "X-Request-ID", requestID)]
         /\ fx' = [fx EXCEPT ![r] = @ \o <<Ef("id.new", 0, requestID),
                                           Ef("header", 0, "X-Request-ID")>>]
    /\ GoIn(r)
    /\ UNCHANGED <<mainPc, srvPc, drained, initialized, live, path, route, mwLogger, h, spans, logs,
                   opsCounter, opsHistogram, errorCounter, resultGauge>>

\* otelhttp.NewHandler(next, "http_request", WithFilter(shouldTraceRequest))
\* up to its call of next: a filtered request gets no span.
TracingMiddleware(r) ==
    /\ pc[r] = "TracingMiddleware"
    /\ IF shouldTraceRequest(path[r])
       THEN /\ spans' = [spans EXCEPT ![r] =
                           StartSpan(r, @, ctx[r], "http_request", [http_target |-> path[r]])]
            /\ ctx' = [ctx EXCEPT ![r].span = Len(spans[r]) + 1]
            /\ fx' = [fx EXCEPT ![r] = Append(@, Ef("span.start", Len(spans[r]) + 1, "http_request"))]
       ELSE UNCHANGED <<spans, ctx, fx>>
    /\ GoIn(r)
    /\ UNCHANGED <<mainPc, srvPc, drained, initialized, live, path, route, w, mwLogger, h, logs, issued,
                   opsCounter, opsHistogram, errorCounter, resultGauge>>

\* ... and after next has returned: the root span is completed and ended.
TracingDone(r) ==
    /\ pc[r] = "TracingDone"
    /\ IF shouldTraceRequest(path[r])
       THEN LET root == ctx[r].span
                done == SpanEnd(SpanSetAttributes(spans[r][root],
                                  [http_status_code |-> ToString(w[r].status)]))
            IN  /\ spans' = [spans EXCEPT ![r][root] = done]
                /\ fx' = [fx EXCEPT ![r] = Append(@, Ef("span.end", root, "http_request"))]
       ELSE UNCHANGED <<spans, fx>>
    /\ GoOut(r)
    /\ UNCHANGED <<mainPc, srvPc, drained, initialized, live, path, route, ctx, w, mwLogger, h, logs, issued,
                   opsCounter, opsHistogram, errorCounter, resultGauge>>

\* LoggingMiddleware up to its call of next.
LoggingMiddleware(r) ==
    /\ pc[r] = "LoggingMiddleware"
    /\ mwLogger' = [mwLogger EXCEPT ![r] = LoggerWithTrace(spans[r], ctx[r])]
    /\ fx' = [fx EXCEPT ![r] = Append(@, Ef("logger", ctx[r].span, "LoggingMiddleware"))]
    /\ GoIn(r)
    /\ UNCHANGED <<mainPc, srvPc, drained, initialized, live, path, route, ctx, w, h, spans, logs, issued,
                   opsCounter, opsHistogram, errorCounter, resultGauge>>

\* The method the client uses for path p.
MethodOf(p) == IF p \in {"/metrics", "/health"} THEN "GET" ELSE "POST"

\* ... and after next has returned: the completion record.
LoggingDone(r) ==
    /\ pc[r] = "LoggingDone"
    /\ logs' = [logs EXCEPT ![r] = Append(@,
                  LogRecord(mwLogger[r], "info", <<"request completed">>,
                            [method |-> MethodOf(path[r]), path |-> path[r],
                             request_id |-> RequestIDFromContext(ctx[r])]))]
    /\ fx' = [fx EXCEPT ![r] = Append(@, Ef("log", 0, "request completed"))]
    /\ GoOut(r)
    /\ UNCHANGED <<mainPc, srvPc, drained, initialized, live, path, route, ctx, w, mwLogger, h, spans, issued,
                   opsCounter, opsHistogram, errorCounter, resultGauge>>

(* ------------------------- the plain handlers -------------------------- *)

\* handlers.Health: 200 with the body "ok".
Health(r) ==
    /\ pc[r] = "Health"
    /\ w' = [w EXCEPT ![r] = WriteDocs(WriteHeader(@, 200), <<[text |-> "ok"]>>)]
    /\ fx' = [fx EXCEPT ![r] = @ \o <<Ef("writeheader", 200, ""), Ef("write", 1, "")>>]
    /\ GoOut(r)
    /\ UNCHANGED <<mainPc, srvPc, drained, initialized, live, path, route, ctx, mwLogger, h, spans, logs, issued,
                   opsCounter, opsHistogram, errorCounter, resultGauge>>

\* observability.PrometheusHandler(): promhttp's scrape page.
PrometheusHandler(r) ==
    /\ pc[r] = "PrometheusHandler"
    /\ w' = [w EXCEPT ![r] = WriteDocs(HeaderSet(@, "Content-Type", "text/plain"),
                                       <<[text |-> "metrics"]>>)]
    /\ fx' = [fx EXCEPT ![r] = @ \o <<Ef("header", 0, "Content-Type"), Ef("write", 1, "")>>]
    /\ GoOut(r)
    /\ UNCHANGED <<mainPc, srvPc, drained, initialized, live, path, route, ctx, mwLogger, h, spans, logs, issued,
                   opsCounter, opsHistogram, errorCounter, resultGauge>>

(* ------------------- RecordError and WriteError ------------------------ *)

\* What a handler of request r works on: the request's own spans, logs,
\* response and effects, and the shared instruments.
Bundle(r) ==
    [spans |-> spans[r], logs |-> logs[r], w |-> w[r], fx |-> fx[r],
     opsCounter |-> opsCounter, opsHistogram |-> opsHistogram,
     errorCounter |-> errorCounter, resultGauge |-> resultGauge]

\* The handler of request r leaves b behind.
Commit(r, b) ==
    /\ spans' = [spans EXCEPT ![r] = b.spans]
    /\ logs' = [logs EXCEPT ![r] = b.logs]
    /\ w' = [w EXCEPT ![r] = b.w]
    /\ fx' = [fx EXCEPT ![r] = b.fx]
    /\ opsCounter' = b.opsCounter
    /\ opsHistogram' = b.opsHistogram
    /\ errorCounter' = b.errorCounter
    /\ resultGauge' = b.resultGauge

\* The three statements that write a JSON document m with a status.
WriteJSON(b, status, docs) ==
    [b EXCEPT !.w = WriteDocs(WriteHeader(HeaderSet(@, "Content-Type", "application/json"),
                                          status), docs),
              !.fx = @ \o <<Ef("header", 0, "Content-Type"), Ef("writeheader", status, ""),
                            Ef("write", Len(docs), "")>>]

\* WriteError whose document has the error field only.
WriteError_NoRequestID(b, status, msg, requestID) ==
    WriteJSON(b, status, EncodeMap([error |-> msg]))

\* handlers.WriteError(w, status, msg, requestID)
WriteError(b, status, msg, requestID) ==
    WriteJSON(b, status, EncodeMap([error |-> msg, request_id |-> requestID]))

\* RecordError that writes the response before it counts and logs.
RecordError_ResponseFirst(b, c, sp, lg, opName, msg, err, status) ==
    LET b1 == [b EXCEPT !.spans[sp] = SpanSetStatus(SpanRecordError(@, err), "Error", msg),
                        !.fx = @ \o <<Ef("span.error", sp, ""), Ef("span.status", sp, "Error")>>]
        b2 == WriteJSON(b1, status,
                        EncodeMap([error |-> msg, request_id |-> RequestIDFromContext(c)]))
        b3 == [b2 EXCEPT !.errorCounter[opName] = @ + 1,
                         !.fx = Append(@, Ef("counter.add", 1, "errors:" \o opName))]
    IN  [b3 EXCEPT !.logs = Append(@, LogRecord(lg, "error", msg,
                                [operation |-> opName, error |-> err,
                                 request_id |-> RequestIDFromContext(c)])),
                   !.fx = Append(@, Ef("log", 0, "error"))]

\* observability.RecordError(ctx, span, logger, counter, opName, msg, err,
\* status, w): c is ctx, sp the index of span, lg the logger; the counter is
\* the calculator's errorCounter.
RecordError(b, c, sp, lg, opName, msg, err, status) ==
    LET b1 == [b EXCEPT !.spans[sp] = SpanSetStatus(SpanRecordError(@, err), "Error", msg),
                        !.fx = @ \o <<Ef("span.error", sp, ""), Ef("span.status", sp, "Error")>>]
        b2 == [b1 EXCEPT !.errorCounter[opName] = @ + 1,
                         !.fx = Append(@, Ef("counter.add", 1, "errors:" \o opName))]
        b3 == [b2 EXCEPT !.logs = Append(@, LogRecord(lg, "error", msg,
                                     [operation |-> opName, error |-> err,
                                      request_id |-> RequestIDFromContext(c)])),
                         !.fx = Append(@, Ef("log", 0, "error"))]
    IN  WriteJSON(b3, status,
                  EncodeMap([error |-> msg, request_id |-> RequestIDFromContext(c)]))

(* ------------------------ calculator: binary --------------------------- *)

\* No error (Go's nil).
Nil == <<>>

\* The operation name Add, Subtract, Multiply and Divide pass on.
OpNameOf(handler) ==
    CASE handler = "Add" -> "add"
      [] handler = "Subtract" -> "subtract"
      [] handler = "Multiply" -> "multiply"
      [] handler = "Divide" -> "divide"

\* Compute closures of which Divide's does not look at the divisor.
Compute_NoZeroCheck(opName, a, b) ==
    CASE opName = "add" -> [result |-> FAdd(a, b), err |-> Nil]
      [] opName = "subtract" -> [result |-> FSub(a, b), err |-> Nil]
      [] opName = "multiply" -> [result |-> FMul(a, b), err |-> Nil]
      [] opName = "divide" -> [result |-> FDiv(a, b), err |-> Nil]

\* The compute closure of each of the four handlers.
Compute(opName, a, b) ==
    CASE opName = "add" -> [result |-> FAdd(a, b), err |-> Nil]
      [] opName = "subtract" -> [result |-> FSub(a, b), err |-> Nil]
      [] opName = "multiply" -> [result |-> FMul(a, b), err |-> Nil]
      [] opName = "divide" ->
            IF IsZero(b)
            THEN [result |-> Num(0),
                  err |-> <<"division by zero", ": ", FmtG(a), " / ", FmtG(b)>>]
            ELSE [result |-> FDiv(a, b), err |-> Nil]

\* handleBinaryOp from "Record operands as span attributes" to its last
\* statement, for a decoded and validated request.
BinaryCompute(b, c, sp, lg, opName, requestID, req) ==
    LET b1 == [b EXCEPT !.spans[sp] = SpanSetAttributes(@,
                            ("calculator.operand.a" :> FmtG(req.A))
                                @@ ("calculator.operand.b" :> FmtG(req.B))),
                        !.fx = Append(@, Ef("compute", sp, opName))]
        res == Compute(opName, req.A, req.B)
    IN  IF res.err # Nil
        THEN RecordError(b1, c, sp, lg, opName, res.err, res.err, 400)
        ELSE LET b2 == [b1 EXCEPT !.opsCounter[opName] = @ + 1,
                                  !.opsHistogram[opName] = @ + 1,
                                  !.resultGauge[opName] = [set |-> TRUE, val |-> res.result],
                                  !.fx = @ \o <<Ef("counter.add", 1, "ops:" \o opName),
                                                Ef("histogram.record", 0, opName),
                                                Ef("gauge.record", 0, opName)>>]
                 b3 == [b2 EXCEPT !.spans[sp] =
                                      SpanSetStatus(
                                        SpanSetAttributes(
                                          SpanAddEvent(@, "computation.complete",
                                                       "result" :> FmtG(res.result)),
                                          "calculator.result" :> FmtG(res.result)),
                                        "Ok", <<>>),
                                  !.fx = @ \o <<Ef("span.event", sp, "computation.complete"),
                                                Ef("span.status", sp, "Ok")>>]
                 b4 == [b3 EXCEPT !.logs = Append(@, LogRecord(lg, "info",
                                        <<"calculator operation completed">>,
                                        [operation |-> opName, a |-> FmtG(req.A),
                                         b |-> FmtG(req.B), result |-> FmtG(res.result),
                                         request_id |-> requestID])),
                                  !.fx = Append(@, Ef("log", 0, "info"))]
             IN  WriteJSON(b4, 200,
                           EncodeCalcResponse([Operation |-> opName, A |-> req.A, B |-> req.B,
                                               Result |-> res.result, RequestID |-> requestID]))

\* A handler without the deferred span.End().
DeferredEnd_Skipped(b, sp) == b

\* The deferred span.End() of a handler.
DeferredEnd(b, sp) ==
    [b EXCEPT !.spans[sp] = SpanEnd(@), !.fx = Append(@, Ef("span.end", sp, ""))]

\* handleBinaryOp(w, r, opName, compute), called by Add, Subtract, Multiply
\* and Divide, for the request body the client sent.
handleBinaryOp(r, opName, body) ==
    LET c0 == ctx[r]
        logger == LoggerWithTrace(spans[r], c0)
        requestID == RequestIDFromContext(c0)
        b0 == Bundle(r)
        sp == Len(b0.spans) + 1
        b1 == [b0 EXCEPT !.spans = StartSpan(r, @, c0, "calculator." \o opName,
                                       ("calculator.operation" :> opName)
                                           @@ ("request.id" :> requestID)),
                         !.fx = @ \o <<Ef("logger", c0.span, "handler"),
                                       Ef("span.start", sp, "calculator." \o opName)>>]
        c1 == [c0 EXCEPT !.span = sp]
        d == DecodeCalcRequest(body)
        out == IF d.err
               THEN RecordError(b1, c1, sp, logger, opName, <<"invalid request body">>,
                                <<"json: cannot decode the body">>, 400)
               ELSE IF IsNaN(d.req.A) \/ IsInf(d.req.A) \/ IsNaN(d.req.B) \/ IsInf(d.req.B)
               THEN RecordError(b1, c1, sp, logger, opName, <<"invalid numeric input">>,
                                <<"a=", FmtG(d.req.A), " b=", FmtG(d.req.B)>>, 400)
               ELSE BinaryCompute(b1, c1, sp, logger, opName, requestID, d.req)
    IN  /\ Commit(r, DeferredEnd(out, sp))
        /\ h' = [h EXCEPT ![r] = [NoFrame EXCEPT !.entered = TRUE, !.ctx = c1,
                                                 !.logger = logger, !.body = body,
                                                 !.requestID = requestID, !.span = sp]]

BinaryOp(r) ==
    /\ pc[r] \in {"Add", "Subtract", "Multiply", "Divide"}
    /\ \E body \in BinaryBodiesOf(live) : handleBinaryOp(r, OpNameOf(pc[r]), body)
    /\ GoOut(r)
    /\ UNCHANGED <<mainPc, srvPc, drained, initialized, live, path, route, ctx, mwLogger, issued>>

(* ------------------------ calculator: chain ---------------------------- *)

\* A switch whose default case does nothing.
ApplyStep_UnknownIgnored(running, step, i) ==
    CASE step.Op = "add" -> [running |-> FAdd(running, step.Value), err |-> Nil]
      [] step.Op = "subtract" -> [running |-> FSub(running, step.Value), err |-> Nil]
      [] step.Op = "multiply" -> [running |-> FMul(running, step.Value), err |-> Nil]
      [] step.Op = "divide" ->
            IF IsZero(step.Value)
            THEN [running |-> running,
                  err |-> <<"division by zero", " at step ", ToString(i)>>]
            ELSE [running |-> FDiv(running, step.Value), err |-> Nil]
      [] OTHER -> [running |-> running, err |-> Nil]

\* The switch of the loop body: the new running total and the error of
\* step i (counted from 0) applied to running.
ApplyStep(running, step, i) ==
    CASE step.Op = "add" -> [running |-> FAdd(running, step.Value), err |-> Nil]
      [] step.Op = "subtract" -> [running |-> FSub(running, step.Value), err |-> Nil]
      [] step.Op = "multiply" -> [running |-> FMul(running, step.Value), err |-> Nil]
      [] step.Op = "divide" ->
            IF IsZero(step.Value)
            THEN [running |-> running,
                  err |-> <<"division by zero", " at step ", ToString(i)>>]
            ELSE [running |-> FDiv(running, step.Value), err |-> Nil]
      [] OTHER -> [running |-> running,
                   err |-> <<"unknown operation", " ", "\"" \o step.Op \o "\"",
                             " at step ", ToString(i)>>]

\* Chain up to the loop, without the check for an empty step list.
ChainBegin_NoEmptyCheck(r) ==
    /\ pc[r] = "Chain"
    /\ \E body \in ChainBodiesOf(live) :
         LET c0 == ctx[r]
             logger == LoggerWithTrace(spans[r], c0)
             requestID == RequestIDFromContext(c0)
             b0 == Bundle(r)
             sp == Len(b0.spans) + 1
             b1 == [b0 EXCEPT !.spans = StartSpan(r, @, c0, "calculator.chain",
                                            "request.id" :> requestID),
                              !.fx = @ \o <<Ef("logger", c0.span, "handler"),
                                            Ef("span.start", sp, "calculator.chain")>>]
             c1 == [c0 EXCEPT !.span = sp]
             d == DecodeChainRequest(body)
             frame == [NoFrame EXCEPT !.entered = TRUE, !.ctx = c1, !.logger = logger,
                                      !.body = body,
                                      !.requestID = requestID, !.span = sp]
         IN  IF d.err
             THEN LET out == RecordError(b1, c1, sp, logger, "chain",
                                         <<"invalid request body">>,
                                         <<"json: cannot decode the body">>, 400)
                  IN  /\ Commit(r, DeferredEnd(out, sp))
                      /\ h' = [h EXCEPT ![r] = frame]
                      /\ GoOut(r)
             ELSE LET b2 == [b1 EXCEPT
                               !.spans[sp] = SpanSetAttributes(@,
                                   ("chain.initial" :> FmtG(d.req.Initial))
                                       @@ ("chain.steps_count" :> ToString(Len(d.req.Steps)))),
                               !.logs = Append(@, LogRecord(logger, "info",
                                   <<"starting chained calculation">>,
                                   [initial |-> FmtG(d.req.Initial),
                                    steps |-> ToString(Len(d.req.Steps)),
                                    request_id |-> requestID])),
                               !.fx = Append(@, Ef("log", 0, "info"))]
                  IN  /\ Commit(r, b2)
                      /\ h' = [h EXCEPT ![r] = [frame EXCEPT !.req = d.req,
                                                             !.running = d.req.Initial]]
                      /\ pc' = [pc EXCEPT ![r] = "ChainLoop"]
                      /\ UNCHANGED depth
    /\ UNCHANGED <<mainPc, srvPc, drained, initialized, live, path, route, ctx, mwLogger, issued>>

\* Chain up to the loop: logger, request id, parent span, decoding and the
\* check for an empty step list.
ChainBegin(r) ==
    /\ pc[r] = "Chain"
    /\ \E body \in ChainBodiesOf(live) :
         LET c0 == ctx[r]
             logger == LoggerWithTrace(spans[r], c0)
             requestID == RequestIDFromContext(c0)
             b0 == Bundle(r)
             sp == Len(b0.spans) + 1
             b1 == [b0 EXCEPT !.spans = StartSpan(r, @, c0, "calculator.chain",
                                            "request.id" :> requestID),
                              !.fx = @ \o <<Ef("logger", c0.span, "handler"),
                                            Ef("span.start", sp, "calculator.chain")>>]
             c1 == [c0 EXCEPT !.span = sp]
             d == DecodeChainRequest(body)
             frame == [NoFrame EXCEPT !.entered = TRUE, !.ctx = c1, !.logger = logger,
                                      !.body = body,
                                      !.requestID = requestID, !.span = sp]
         IN  IF d.err \/ Len(d.req.Steps) = 0
             THEN LET out == IF d.err
                             THEN RecordError(b1, c1, sp, logger, "chain",
                                              <<"invalid request body">>,
                                              <<"json: cannot decode the body">>, 400)
                             ELSE RecordError(b1, c1, sp, logger, "chain",
                                              <<"no steps provided">>,
                                              <<"steps array is empty">>, 400)
                  IN  /\ Commit(r, DeferredEnd(out, sp))
                      /\ h' = [h EXCEPT ![r] = frame]
                      /\ GoOut(r)
             ELSE LET b2 == [b1 EXCEPT
                               !.spans[sp] = SpanSetAttributes(@,
                                   ("chain.initial" :> FmtG(d.req.Initial))
                                       @@ ("chain.steps_count" :> ToString(Len(d.req.Steps)))),
                               !.logs = Append(@, LogRecord(logger, "info",
                                   <<"starting chained calculation">>,
                                   [initial |-> FmtG(d.req.Initial),
                                    steps |-> ToString(Len(d.req.Steps)),
                                    request_id |-> requestID])),
                               !.fx = Append(@, Ef("log", 0, "info"))]
                  IN  /\ Commit(r, b2)
                      /\ h' = [h EXCEPT ![r] = [frame EXCEPT !.req = d.req,
                                                             !.running = d.req.Initial]]
                      /\ pc' = [pc EXCEPT ![r] = "ChainLoop"]
                      /\ UNCHANGED depth
    /\ UNCHANGED <<mainPc, srvPc, drained, initialized, live, path, route, ctx, mwLogger, issued>>

\* A failure branch that records the error on the child span only.
StepFailed_ParentUnmarked(b, f, ssp, i, step, err) ==
    LET b1 == [b EXCEPT !.spans[ssp] = SpanEnd(SpanSetStatus(SpanRecordError(@, err),
                                                            "Error", err)),
                        !.fx = @ \o <<Ef("span.error", ssp, ""), Ef("span.status", ssp, "Error"),
                                      Ef("span.end", ssp, "")>>]
        b3 == [b1 EXCEPT !.errorCounter[step.Op] = @ + 1,
                         !.fx = Append(@, Ef("counter.add", 1, "errors:" \o step.Op))]
        b4 == [b3 EXCEPT !.logs = Append(@, LogRecord(f.logger, "error", <<"chain step failed">>,
                                      [step |-> ToString(i), operation |-> step.Op,
                                       error |-> err, request_id |-> f.requestID])),
                         !.fx = Append(@, Ef("log", 0, "error"))]
    IN  WriteJSON(b4, 400, EncodeMap([error |-> err, request_id |-> f.requestID]))

\* A failure branch that does not add to the error counter.
StepFailed_NotCounted(b, f, ssp, i, step, err) ==
    LET b1 == [b EXCEPT !.spans[ssp] = SpanEnd(SpanSetStatus(SpanRecordError(@, err),
                                                            "Error", err)),
                        !.fx = @ \o <<Ef("span.error", ssp, ""), Ef("span.status", ssp, "Error"),
                                      Ef("span.end", ssp, "")>>]
        b2 == [b1 EXCEPT !.spans[f.span] =
                             SpanSetStatus(SpanRecordError(@, err), "Error",
                                           <<"failed at step ", ToString(i)>>),
                         !.fx = @ \o <<Ef("span.error", f.span, ""),
                                       Ef("span.status", f.span, "Error")>>]
        b4 == [b2 EXCEPT !.logs = Append(@, LogRecord(f.logger, "error", <<"chain step failed">>,
                                      [step |-> ToString(i), operation |-> step.Op,
                                       error |-> err, request_id |-> f.requestID])),
                         !.fx = Append(@, Ef("log", 0, "error"))]
    IN  WriteError(b4, 400, err, f.requestID)

\* The failure branch of the loop body: child span, parent span, counter,
\* log and response, then return.
StepFailed(b, f, ssp, i, step, err) ==
    LET b1 == [b EXCEPT !.spans[ssp] = SpanEnd(SpanSetStatus(SpanRecordError(@, err),
                                                            "Error", err)),
                        !.fx = @ \o <<Ef("span.error", ssp, ""), Ef("span.status", ssp, "Error"),
                                      Ef("span.end", ssp, "")>>]
        b2 == [b1 EXCEPT !.spans[f.span] =
                             SpanSetStatus(SpanRecordError(@, err), "Error",
                                           <<"failed at step ", ToString(i)>>),
                         !.fx = @ \o <<Ef("span.error", f.span, ""),
                                       Ef("span.status", f.span, "Error")>>]
        b3 == [b2 EXCEPT !.errorCounter[step.Op] = @ + 1,
                         !.fx = Append(@, Ef("counter.add", 1, "errors:" \o step.Op))]
        b4 == [b3 EXCEPT !.logs = Append(@, LogRecord(f.logger, "error", <<"chain step failed">>,
                                      [step |-> ToString(i), operation |-> step.Op,
                                       error |-> err, request_id |-> f.requestID])),
                         !.fx = Append(@, Ef("log", 0, "error"))]
    IN  WriteError(b4, 400, err, f.requestID)

\* A success branch that records no metric sample.
StepApplied_NoSample(b, f, ssp, i, step, prev, running) ==
    LET b2 == [b EXCEPT !.spans[ssp] =
                            SpanEnd(SpanSetStatus(
                              SpanSetAttributes(SpanAddEvent(@, "step.complete",
                                                             ("input" :> FmtG(prev))
                                                                 @@ ("result" :> FmtG(running))),
                                                "chain.step.result" :> FmtG(running)),
                              "Ok", <<>>)),
                        !.fx = @ \o <<Ef("span.event", ssp, "step.complete"),
                                      Ef("span.status", ssp, "Ok"), Ef("span.end", ssp, "")>>]
    IN  [b2 EXCEPT !.logs = Append(@, LogRecord(f.logger, "info", <<"chain step completed">>,
                                [step |-> ToString(i), operation |-> step.Op,
                                 input |-> FmtG(prev), value |-> FmtG(step.Value),
                                 result |-> FmtG(running)])),
                   !.fx = Append(@, Ef("log", 0, "info"))]

\* The success branch of the loop body: metrics, child span, log.
StepApplied(b, f, ssp, i, step, prev, running) ==
    LET b1 == [b EXCEPT !.opsCounter[step.Op] = @ + 1,
                        !.opsHistogram[step.Op] = @ + 1,
                        !.fx = @ \o <<Ef("counter.add", 1, "ops:" \o step.Op),
                                      Ef("histogram.record", 0, step.Op)>>]
        b2 == [b1 EXCEPT !.spans[ssp] =
                             SpanEnd(SpanSetStatus(
                               SpanSetAttributes(SpanAddEvent(@, "step.complete",
                                                              ("input" :> FmtG(prev))
                                                                  @@ ("result" :> FmtG(running))),
                                                 "chain.step.result" :> FmtG(running)),
                               "Ok", <<>>)),
                         !.fx = @ \o <<Ef("span.event", ssp, "step.complete"),
                                       Ef("span.status", ssp, "Ok"), Ef("span.end", ssp, "")>>]
    IN  [b2 EXCEPT !.logs = Append(@, LogRecord(f.logger, "info", <<"chain step completed">>,
                                [step |-> ToString(i), operation |-> step.Op,
                                 input |-> FmtG(prev), value |-> FmtG(step.Value),
                                 result |-> FmtG(running)])),
                   !.fx = Append(@, Ef("log", 0, "info"))]

\* A loop body whose failure branch does not return: the loop goes on.
ChainStep_Continues(r) ==
    /\ pc[r] = "ChainLoop"
    /\ h[r].i < Len(h[r].req.Steps)
    /\ LET f == h[r]
           i == f.i
           step == f.req.Steps[i + 1]
           b0 == Bundle(r)
           ssp == Len(b0.spans) + 1
           name == "calculator.chain.step." \o ToString(i) \o "." \o step.Op
           b1 == [b0 EXCEPT !.spans = StartSpan(r, @, f.ctx, name,
                                          ("chain.step.index" :> ToString(i))
                                              @@ ("chain.step.operation" :> step.Op)
                                              @@ ("chain.step.input" :> FmtG(f.running))
                                              @@ ("chain.step.value" :> FmtG(step.Value))),
                            !.fx = Append(@, Ef("span.start", ssp, name))]
           ap == ApplyStep(f.running, step, i)
       IN  IF ap.err # Nil
           THEN /\ Commit(r, StepFailed(b1, f, ssp, i, step, ap.err))
                /\ h' = [h EXCEPT ![r].failedAt = i, ![r].running = ap.running,
                                  ![r].i = i + 1]
                /\ UNCHANGED <<pc, depth>>
           ELSE /\ Commit(r, StepApplied(b1, f, ssp, i, step, f.running, ap.running))
                /\ h' = [h EXCEPT ![r].running = ap.running,
                                  ![r].results = Append(@, [Op |-> step.Op, Value |-> step.Value,
                                                            Result |-> ap.running]),
                                  ![r].i = i + 1]
                /\ UNCHANGED <<pc, depth>>
    /\ UNCHANGED <<mainPc, srvPc, drained, initialized, live, path, route, ctx, mwLogger, issued>>

\* One iteration of the loop over req.Steps.
ChainStep(r) ==
    /\ pc[r] = "ChainLoop"
    /\ h[r].i < Len(h[r].req.Steps)
    /\ LET f == h[r]
           i == f.i
           step == f.req.Steps[i + 1]
           b0 == Bundle(r)
           ssp == Len(b0.spans) + 1
           name == "calculator.chain.step." \o ToString(i) \o "." \o step.Op
           b1 == [b0 EXCEPT !.spans = StartSpan(r, @, f.ctx, name,
                                          ("chain.step.index" :> ToString(i))
                                              @@ ("chain.step.operation" :> step.Op)
                                              @@ ("chain.step.input" :> FmtG(f.running))
                                              @@ ("chain.step.value" :> FmtG(step.Value))),
                            !.fx = Append(@, Ef("span.start", ssp, name))]
           ap == ApplyStep(f.running, step, i)
       IN  IF ap.err # Nil
           THEN /\ Commit(r, DeferredEnd(StepFailed(b1, f, ssp, i, step, ap.err), f.span))
                /\ h' = [h EXCEPT ![r].failedAt = i, ![r].running = ap.running]
                /\ GoOut(r)
           ELSE /\ Commit(r, StepApplied(b1, f, ssp, i, step, f.running, ap.running))
                /\ h' = [h EXCEPT ![r].running = ap.running,
                                  ![r].results = Append(@, [Op |-> step.Op, Value |-> step.Value,
                                                            Result |-> ap.running]),
                                  ![r].i = i + 1]
                /\ UNCHANGED <<pc, depth>>
    /\ UNCHANGED <<mainPc, srvPc, drained, initialized, live, path, route, ctx, mwLogger, issued>>

\* Chain after the loop: gauge, parent span, log, response.
ChainEnd(r) ==
    /\ pc[r] = "ChainLoop"
    /\ h[r].i = Len(h[r].req.Steps)
    /\ LET f == h[r]
           b0 == Bundle(r)
           b1 == [b0 EXCEPT !.resultGauge["chain"] = [set |-> TRUE, val |-> f.running],
                            !.fx = Append(@, Ef("gauge.record", 0, "chain"))]
           b2 == [b1 EXCEPT !.spans[f.span] =
                                SpanSetStatus(
                                  SpanSetAttributes(
                                    SpanAddEvent(@, "chain.complete",
                                        ("final_result" :> FmtG(f.running))
                                            @@ ("total_steps" :> ToString(Len(f.req.Steps)))),
                                    "chain.result" :> FmtG(f.running)),
                                  "Ok", <<>>),
                            !.fx = @ \o <<Ef("span.event", f.span, "chain.complete"),
                                          Ef("span.status", f.span, "Ok")>>]
           b3 == [b2 EXCEPT !.logs = Append(@, LogRecord(f.logger, "info",
                                         <<"chained calculation completed">>,
                                         [initial |-> FmtG(f.req.Initial),
                                          result |-> FmtG(f.running),
                                          steps |-> ToString(Len(f.req.Steps)),
                                          request_id |-> f.requestID])),
                            !.fx = Append(@, Ef("log", 0, "info"))]
           b4 == WriteJSON(b3, 200,
                           EncodeChainResponse([Initial |-> f.req.Initial, Steps |-> f.results,
                                                Result |-> f.running,
                                                RequestID |-> f.requestID]))
       IN  Commit(r, DeferredEnd(b4, f.span))
    /\ GoOut(r)
    /\ UNCHANGED <<mainPc, srvPc, drained, initialized, live, path, route, ctx, mwLogger, h, issued>>

(* --------------------------- specification ----------------------------- *)

Next ==
    \/ InitLogger
    \/ InitTracing
    \/ initMetrics
    \/ ListenAndServe
    \/ Signal
    \/ Shutdown
    \/ ServeReturned
    \/ RunDeferred
    \/ \E r \in Reqs :
        \/ Arrive(r)
        \/ RequestIDMiddleware(r)
        \/ TracingMiddleware(r)
        \/ LoggingMiddleware(r)
        \/ Health(r)
        \/ PrometheusHandler(r)
        \/ BinaryOp(r)
        \/ ChainBegin(r)
        \/ ChainStep(r)
        \/ ChainEnd(r)
        \/ LoggingDone(r)
        \/ TracingDone(r)

Spec == Init /\ [][Next]_vars

(* ----------------- LoggerWithTrace on its own inputs ------------------- *)

\* The spans a context handed to LoggerWithTrace can carry: one per trace.
SpanInputs ==
    {[StartSpan(t, <<>>, Background, "span", <<>>)[1] EXCEPT !.span_id = SpanIDOf(t, t)] :
        t \in Reqs}

\* Every request slot holds a list of at most MaxSpans spans and a context
\* that carries one of them or none; the process is past its start-up.
LoggerWithTraceInit ==
    /\ mainPc = "serving"
    /\ srvPc = "accepting"
    /\ drained = <<>>
    /\ initialized = Globals
    /\ live = Reqs
    /\ pc = [r \in Reqs |-> "new"]
    /\ depth = [r \in Reqs |-> 0]
    /\ path = [r \in Reqs |-> ""]
    /\ route = [r \in Reqs |-> <<>>]
    /\ spans \in [Reqs -> SeqsUpTo(SpanInputs, MaxSpans)]
    /\ ctx \in {c \in [Reqs -> {[Background EXCEPT !.span = k] : k \in 0..MaxSpans}] :
                   \A r \in Reqs : c[r].span <= Len(spans[r])}
    /\ w = [r \in Reqs |-> NewResponseWriter]
    /\ mwLogger = [r \in Reqs |-> Logger]
    /\ h = [r \in Reqs |-> NoFrame]
    /\ logs = [r \in Reqs |-> <<>>]
    /\ fx = [r \in Reqs |-> <<>>]
    /\ issued = {}
    /\ opsCounter = [o \in OpAttrs |-> 0]
    /\ opsHistogram = [o \in OpAttrs |-> 0]
    /\ errorCounter = [o \in OpAttrs |-> 0]
    /\ resultGauge = [o \in OpAttrs |-> NoSample]

\* logger := observability.LoggerWithTrace(ctx) for the context of slot r.
CallLoggerWithTrace(r) ==
    /\ pc[r] = "new"
    /\ mwLogger' = [mwLogger EXCEPT ![r] = LoggerWithTrace(spans[r], ctx[r])]
    /\ fx' = [fx EXCEPT ![r] = Append(@, Ef("logger", ctx[r].span, "LoggerWithTrace"))]
    /\ pc' = [pc EXCEPT ![r] = "done"]
    /\ UNCHANGED <<mainPc, srvPc, drained, initialized, live, depth, path, route, ctx, w, h, spans, logs,
                   issued, opsCounter, opsHistogram, errorCounter, resultGauge>>

LoggerWithTraceNext == \E r \in Reqs : CallLoggerWithTrace(r)

LoggerWithTraceSpec == LoggerWithTraceInit /\ [][LoggerWithTraceNext]_vars

(* ---------- ContextWithRequestID / RequestIDFromContext alone ----------- *)

\* The strings handed to ContextWithRequestID: an id of the generator, the
\* id of the round-trip test, and the empty string.
IdStrings == IdPool \cup {"abc-123", ""}

\* The contexts handed to the two functions: context.Background(), one that
\* holds a string under RequestIDKey, and one that holds the int 42 there.
ContextInputs ==
    {Background, [Background EXCEPT !.rid = [t |-> "int", v |-> "42"]]}
        \cup {[Background EXCEPT !.rid = [t |-> "string", v |-> id]] : id \in IdStrings}

RequestIDInit ==
    /\ mainPc = "serving"
    /\ srvPc = "accepting"
    /\ drained = <<>>
    /\ initialized = Globals
    /\ live = Reqs
    /\ pc = [r \in Reqs |-> "new"]
    /\ depth = [r \in Reqs |-> 0]
    /\ path = [r \in Reqs |-> ""]
    /\ route = [r \in Reqs |-> <<>>]
    /\ ctx \in [Reqs -> ContextInputs]
    /\ w = [r \in Reqs |-> NewResponseWriter]
    /\ mwLogger = [r \in Reqs |-> Logger]
    /\ h = [r \in Reqs |-> NoFrame]
    /\ spans = [r \in Reqs |-> <<>>]
    /\ logs = [r \in Reqs |-> <<>>]
    /\ fx = [r \in Reqs |-> <<>>]
    /\ issued = {}
    /\ opsCounter = [o \in OpAttrs |-> 0]
    /\ opsHistogram = [o \in OpAttrs |-> 0]
    /\ errorCounter = [o \in OpAttrs |-> 0]
    /\ resultGauge = [o \in OpAttrs |-> NoSample]

\* ctx = ContextWithRequestID(ctx, id) for the context of slot r.
CallContextWithRequestID(r) ==
    /\ pc[r] = "new"
    /\ \E id \in IdStrings :
         /\ ctx' = [ctx EXCEPT ![r] = ContextWithRequestID(@, id)]
         /\ fx' = [fx EXCEPT ![r] = Append(@, Ef("ContextWithRequestID", 0, id))]
    /\ pc' = [pc EXCEPT ![r] = "stored"]
    /\ UNCHANGED <<mainPc, srvPc, drained, initialized, live, depth, path, route, w, mwLogger, h,
                   spans, logs, issued, opsCounter, opsHistogram, errorCounter, resultGauge>>

\* got := RequestIDFromContext(ctx) for the context of slot r.
CallRequestIDFromContext(r) ==
    /\ pc[r] \in {"new", "stored"}
    /\ h' = [h EXCEPT ![r].requestID = RequestIDFromContext(ctx[r]), ![r].entered = TRUE]
    /\ fx' = [fx EXCEPT ![r] = Append(@, Ef("RequestIDFromContext", 0, ""))]
    /\ pc' = [pc EXCEPT ![r] = "done"]
    /\ UNCHANGED <<mainPc, srvPc, drained, initialized, live, depth, path, route, ctx, w,
                   mwLogger, spans, logs, issued, opsCounter, opsHistogram, errorCounter,
                   resultGauge>>

RequestIDNext ==
    \E r \in Reqs : CallContextWithRequestID(r) \/ CallRequestIDFromContext(r)

RequestIDSpec == RequestIDInit /\ [][RequestIDNext]_vars

(* ------------------------------ claims --------------------------------- *)

Done(r) == pc[r] = "done"

CalculatorPaths == BinaryPaths \cup {"/calculator/chain"}

\* The positions of fx[r] at which a request id was generated.
IdsNewIn(r) == {j \in DOMAIN fx[r] : fx[r][j].k = "id.new"}

HasId(r) == IdsNewIn(r) # {}

\* The id generated for request r ("" when none was).
IdOf(r) == IF HasId(r) THEN fx[r][CHOOSE j \in IdsNewIn(r) : TRUE].a ELSE ""

CompletionLogs(r) == {j \in DOMAIN logs[r] : logs[r][j].msg = <<"request completed">>}

\* Every request id that a log record, a span attribute, the response
\* header or a response document of request r carries.
RequestIdsIn(r) ==
    {logs[r][j].fields.request_id :
        j \in {x \in DOMAIN logs[r] : "request_id" \in DOMAIN logs[r][x].fields}}
      \cup {spans[r][j].attrs["request.id"] :
              j \in {x \in DOMAIN spans[r] : "request.id" \in DOMAIN spans[r][x].attrs}}
      \cup {w[r].header["X-Request-ID"]}
      \cup (IF w[r].wroteHeader > 0 THEN {w[r].sent["X-Request-ID"]} ELSE {})
      \cup {w[r].body[j].request_id :
              j \in {x \in DOMAIN w[r].body : "request_id" \in DOMAIN w[r].body[x]}}

\* C1 (as claimed): on every route, /health and /metrics included, the
\* response of a served request carries an X-Request-ID header holding the
\* id of that request.
C1_EveryResponseCarriesRequestID ==
    \A r \in Reqs :
        Done(r) => /\ w[r].sent["X-Request-ID"] # ""
                   /\ w[r].sent["X-Request-ID"] = IdOf(r)

\* C2 (as claimed): shouldTraceRequest is false for exactly /health and
\* /metrics; a request to one of them gets no root span, but it is assigned
\* a request id and one "request completed" record is emitted for it.
C2_UntracedPathsKeepIdAndLog ==
    /\ \A p \in Paths : shouldTraceRequest(p) <=> p \notin {"/health", "/metrics"}
    /\ \A r \in Reqs :
          (Done(r) /\ path[r] \in {"/health", "/metrics"}) =>
              /\ \A j \in DOMAIN spans[r] : spans[r][j].name # "http_request"
              /\ HasId(r)
              /\ CompletionLogs(r) # {}

\* C3: a request that passes through RequestIDMiddleware has its id
\* generated exactly once, as the first effect of the request, and from then
\* on the X-Request-ID header, the id in the context, the id the handler
\* reads and the request_id of the "request completed" record all equal it.
C3_RequestIdGeneratedOnceAndStable ==
    \A r \in Reqs :
        ("RequestIDMiddleware" \in Range(route[r]) /\ pc[r] # "RequestIDMiddleware") =>
            /\ IdsNewIn(r) = {1}
            /\ IdOf(r) # ""
            /\ w[r].header["X-Request-ID"] = IdOf(r)
            /\ (w[r].wroteHeader > 0 => w[r].sent["X-Request-ID"] = IdOf(r))
            /\ RequestIDFromContext(ctx[r]) = IdOf(r)
            /\ (h[r].entered => /\ h[r].requestID = IdOf(r)
                                /\ RequestIDFromContext(h[r].ctx) = IdOf(r))
            /\ \A j \in CompletionLogs(r) : logs[r][j].fields.request_id = IdOf(r)

\* C3 witness: a calculator request is answered and its completion record
\* is written.
C3_Witness ==
    \E r \in Reqs : Done(r) /\ path[r] = "/calculator/add" /\ w[r].status = 200
                    /\ h[r].entered /\ CompletionLogs(r) # {}

\* C4: requests handled together get pairwise distinct ids, and every log
\* record, span attribute and response of a request carries that request's
\* own id, never the id of another request.
C4_ConcurrentRequestsKeepTheirOwnIds ==
    /\ \A r1 \in Reqs, r2 \in Reqs :
          (r1 # r2 /\ HasId(r1) /\ HasId(r2)) => IdOf(r1) # IdOf(r2)
    /\ \A r \in Reqs :
          /\ HasId(r) => RequestIdsIn(r) = {IdOf(r)}
          /\ \A o \in Reqs \ {r} : HasId(o) => IdOf(o) \notin RequestIdsIn(r)

\* C4 witness: two requests are in flight together, each with its handler's
\* records written and its completion record still to come.
C4_Witness ==
    /\ \A r \in Reqs : pc[r] = "LoggingDone" /\ logs[r] # <<>> /\ Len(spans[r]) >= 2
    /\ Cardinality(Reqs) >= 2

Returned(r) == h[r].entered /\ pc[r] \in {"LoggingDone", "TracingDone", "done"}

\* C6 (as claimed): every status-200 response of a calculator endpoint has
\* a JSON body with a request_id field equal to the request's id.
C6_SuccessBodyHasRequestId ==
    \A r \in Reqs :
        (path[r] \in CalculatorPaths /\ Returned(r) /\ w[r].status = 200) =>
            /\ w[r].body # <<>>
            /\ \A j \in DOMAIN w[r].body :
                  /\ "request_id" \in DOMAIN w[r].body[j]
                  /\ w[r].body[j].request_id = IdOf(r)

\* C7 (as claimed): on every path through handleBinaryOp and Chain the
\* status line is written once and one JSON body is written once.
C7_ExactlyOneResponseWritten ==
    \A r \in Reqs :
        (path[r] \in CalculatorPaths /\ Returned(r)) =>
            /\ w[r].wroteHeader = 1
            /\ Len(w[r].body) = 1

\* The operation name the handler mounted at path p reports errors under.
OpNameAt(p) == IF p = "/calculator/chain" THEN "chain" ELSE OpNameOf(HandlerAt(p))

\* The handler of request r has called RecordError.
RecordErrorCalled(r) ==
    /\ h[r].entered /\ h[r].failedAt < 0
    /\ \E j \in DOMAIN fx[r] : fx[r][j].k = "span.error"

\* The effects of one RecordError call of request r, in the claimed order.
RecordErrorEffects(r) ==
    <<Ef("span.error", h[r].span, ""), Ef("span.status", h[r].span, "Error"),
      Ef("counter.add", 1, "errors:" \o OpNameAt(path[r])), Ef("log", 0, "error"),
      Ef("header", 0, "Content-Type"), Ef("writeheader", 400, ""), Ef("write", 1, "")>>

\* C8: one RecordError call marks the span as error with the message, then
\* adds 1 to the error counter under the operation name, then emits one
\* error record with operation, cause and request id, then writes the
\* response with the given status; each of the four exactly once.
C8_RecordErrorOrder ==
    \A r \in Reqs :
        RecordErrorCalled(r) =>
            LET at == CHOOSE j \in DOMAIN fx[r] : fx[r][j].k = "span.error"
                want == RecordErrorEffects(r)
                sp == spans[r][h[r].span]
                rec == logs[r][CHOOSE j \in DOMAIN logs[r] : logs[r][j].level = "error"]
            IN  /\ at + Len(want) - 1 <= Len(fx[r])
                /\ SubSeq(fx[r], at, at + Len(want) - 1) = want
                /\ \A e \in Range(want) : Cardinality({j \in DOMAIN fx[r] : fx[r][j] = e}) = 1
                /\ Cardinality({j \in DOMAIN fx[r] :
                       fx[r][j].k \in {"span.error", "counter.add", "writeheader", "write"}}) = 4
                /\ sp.status = "Error" /\ sp.desc = rec.msg /\ sp.errs = <<rec.fields.error>>
                /\ errorCounter[OpNameAt(path[r])] >= 1
                /\ DOMAIN rec.fields = {"operation", "error", "request_id"}
                /\ rec.fields.operation = OpNameAt(path[r])
                /\ rec.fields.request_id = IdOf(r)
                /\ w[r].status = 400 /\ w[r].body = <<[error |-> rec.msg, request_id |-> IdOf(r)]>>

\* C8 witness: a divide by zero went through RecordError and the request
\* is finished.
C8_Witness ==
    \E r \in Reqs : /\ RecordErrorCalled(r) /\ Done(r) /\ path[r] = "/calculator/divide"
                    /\ w[r].body[1].error[1] = "division by zero"

\* The running total after the first n steps of steps, starting at x.
RECURSIVE RunSteps(_, _, _)
RunSteps(x, steps, n) ==
    IF n = 0 THEN x ELSE ApplyStep(RunSteps(x, steps, n - 1), steps[n], n - 1).running

\* The spans of request r that are children of its handler's span.
StepSpans(r) == {j \in DOMAIN spans[r] : h[r].span # 0 /\ spans[r][j].parent = h[r].span}

\* The effects of request r of kind kd.
EffectsOf(r, kd) == {j \in DOMAIN fx[r] : fx[r][j].k = kd}

\* C9: when step i of a chain fails, no later step is executed: the loop
\* is left, only steps 0..i got a span, only steps 0..i-1 recorded a metric
\* sample and a result, and the accumulator keeps the value it had before
\* step i.
C9_NoStepAfterFailure ==
    \A r \in Reqs :
        h[r].failedAt >= 0 =>
            LET i == h[r].failedAt
            IN  /\ pc[r] \in {"LoggingDone", "TracingDone", "done"}
                /\ Cardinality(StepSpans(r)) = i + 1
                /\ Len(spans[r]) = h[r].span + i + 1
                /\ Cardinality({j \in EffectsOf(r, "counter.add") :
                                   fx[r][j].a \notin {"errors:" \o o : o \in OpAttrs}}) = i
                /\ Cardinality(EffectsOf(r, "histogram.record")) = i
                /\ EffectsOf(r, "gauge.record") = {}
                /\ Len(h[r].results) = i /\ h[r].i = i
                /\ h[r].running = RunSteps(h[r].req.Initial, h[r].req.Steps, i)

\* C9 witness: the second of three steps failed, so a step was left over.
C9_Witness ==
    \E r \in Reqs : h[r].failedAt = 1 /\ Len(h[r].req.Steps) = 3 /\ Done(r)

\* C10: when step i of a chain fails, the step's span carries the cause,
\* has status error and is ended before the chain span is marked; the chain
\* span is marked "failed at step i" and both spans end with status error.
C10_FailureMarksChildAndParent ==
    \A r \in Reqs :
        h[r].failedAt >= 0 =>
            LET i == h[r].failedAt
                cause == ApplyStep(h[r].running, h[r].req.Steps[i + 1], i).err
                ci == Len(spans[r])
                pi == h[r].span
                child == spans[r][ci]
                parent == spans[r][pi]
                pos(e) == CHOOSE j \in DOMAIN fx[r] : fx[r][j] = e
            IN  /\ cause # Nil
                /\ child.parent = pi
                /\ child.status = "Error" /\ child.desc = cause /\ child.errs = <<cause>>
                /\ child.ended = 1 /\ child.late = 0
                /\ parent.status = "Error"
                /\ parent.desc = <<"failed at step ", ToString(i)>>
                /\ parent.errs = <<cause>>
                /\ parent.ended = 1 /\ parent.late = 0
                /\ \A e \in {Ef("span.end", ci, ""), Ef("span.error", pi, ""),
                             Ef("span.status", pi, "Error"), Ef("span.end", pi, "")} :
                      Cardinality({j \in DOMAIN fx[r] : fx[r][j] = e}) = 1
                /\ pos(Ef("span.status", ci, "Error")) < pos(Ef("span.end", ci, ""))
                /\ pos(Ef("span.end", ci, "")) < pos(Ef("span.error", pi, ""))
                /\ pos(Ef("span.error", pi, "")) < pos(Ef("span.status", pi, "Error"))
                /\ pos(Ef("span.status", pi, "Error")) < pos(Ef("span.end", pi, ""))

\* C10 witness: a chain failed on an unknown operator after a step that
\* applied, and the request is finished.
C10_Witness ==
    \E r \in Reqs : /\ h[r].failedAt = 1 /\ Done(r)
                    /\ h[r].req.Steps[2].Op = "pow"
                    /\ spans[r][Len(spans[r])].status = "Error"

\* The operators the switch of Chain knows.
Supported == {"add", "subtract", "multiply", "divide"}

\* Step j (counted from 1) of steps is one the switch applies without error.
Applies(steps, j) ==
    /\ steps[j].Op \in Supported
    /\ steps[j].Op = "divide" => ~IsZero(steps[j].Value)

\* The chain request the handler of request r decoded from the body.
ChainDecoded(r) == DecodeChainRequest(h[r].body)

\* The handler of Chain has returned for request r and the body decoded.
ChainReturned(r) ==
    /\ path[r] = "/calculator/chain" /\ Returned(r)
    /\ ~ChainDecoded(r).err

\* C11 (as claimed): a chain whose steps all are add, subtract, multiply or
\* divide by a non-zero value is answered with status 200 and one document
\* whose steps list has one entry per input step, in input order, entry i
\* holding the accumulator after steps 0..i, and whose result is the last
\* accumulator.
C11_ChainReturnsEveryStepResult ==
    \A r \in Reqs :
        LET req == ChainDecoded(r).req
            n == Len(req.Steps)
        IN  (ChainReturned(r) /\ n > 0 /\ \A j \in 1..n : Applies(req.Steps, j)) =>
                /\ w[r].status = 200
                /\ Len(w[r].body) = 1
                /\ Len(w[r].body[1].steps) = n
                /\ \A j \in 1..n :
                      /\ w[r].body[1].steps[j].op = req.Steps[j].Op
                      /\ w[r].body[1].steps[j].value = req.Steps[j].Value
                      /\ w[r].body[1].steps[j].result = RunSteps(req.Initial, req.Steps, j)
                /\ w[r].body[1].result = RunSteps(req.Initial, req.Steps, n)

\* The message of the error response for an unsupported operator at step i.
UnknownOperation(op, i) ==
    <<"unknown operation", " ", "\"" \o op \o "\"", " at step ", ToString(i)>>

\* The response of request r is the error document for an unsupported
\* operator at step i: status 400, the message, and no step results.
UnknownOperationResponse(r, op, i) ==
    /\ w[r].status = 400
    /\ Len(w[r].body) = 1
    /\ DOMAIN w[r].body[1] = {"error", "request_id"}
    /\ w[r].body[1].error = UnknownOperation(op, i)

\* C12 (as claimed): a chain whose step i has an unsupported operator is
\* answered with status 400, a message that says "unknown operation" and
\* names step i, and no step results -- whatever the steps before i are.
C12_UnknownOperatorAtAnyStep ==
    \A r \in Reqs :
        LET req == ChainDecoded(r).req
        IN  ChainReturned(r) =>
                \A j \in 1..Len(req.Steps) :
                    req.Steps[j].Op \notin Supported =>
                        UnknownOperationResponse(r, req.Steps[j].Op, j - 1)

\* C12 (amended): a chain whose steps 0..i-1 are applied without failure and
\* whose step i has an unsupported operator is answered with status 400, a
\* message that says "unknown operation" and names step i, and no step
\* results.
C12_FirstUnknownOperatorIsReported ==
    \A r \in Reqs :
        LET req == ChainDecoded(r).req
        IN  ChainReturned(r) =>
                \A j \in 1..Len(req.Steps) :
                    (/\ req.Steps[j].Op \notin Supported
                     /\ \A k \in 1..j - 1 : Applies(req.Steps, k)) =>
                        /\ UnknownOperationResponse(r, req.Steps[j].Op, j - 1)
                        /\ h[r].failedAt = j - 1

\* C12 witness: a chain of three steps whose second step is "pow" is
\* answered after one step was applied.
C12_Witness ==
    \E r \in Reqs :
        /\ ChainReturned(r) /\ Done(r)
        /\ Len(h[r].req.Steps) = 3 /\ h[r].req.Steps[2].Op = "pow"
        /\ Len(h[r].results) = 1
        /\ w[r].body[1].error[1] = "unknown operation"

\* The binary request the handler of request r decoded from the body.
CalcDecoded(r) == DecodeCalcRequest(h[r].body)

\* C13: POST /calculator/divide with b = 0, whatever a is, is answered with
\* status 400 and a message that begins "division by zero"; no quotient is
\* computed (no operation sample, no gauge sample, no result attribute) and
\* the response has no result.
C13_DivideByZeroIsRejected ==
    \A r \in Reqs :
        (/\ path[r] = "/calculator/divide" /\ Returned(r)
         /\ ~CalcDecoded(r).err /\ IsZero(CalcDecoded(r).req.B)) =>
            /\ w[r].status = 400
            /\ Len(w[r].body) = 1
            /\ DOMAIN w[r].body[1] = {"error", "request_id"}
            /\ w[r].body[1].error[1] = "division by zero"
            /\ EffectsOf(r, "gauge.record") = {}
            /\ EffectsOf(r, "histogram.record") = {}
            /\ \A j \in EffectsOf(r, "counter.add") : fx[r][j].a = "errors:divide"
            /\ "calculator.result" \notin DOMAIN spans[r][h[r].span].attrs
            /\ spans[r][h[r].span].status = "Error"

\* C13 witness: 0 / 0 was sent and answered.
C13_Witness ==
    \E r \in Reqs :
        /\ path[r] = "/calculator/divide" /\ Done(r)
        /\ h[r].body = [ok |-> TRUE, a |-> 0, b |-> 0]
        /\ w[r].status = 400

\* C14: a chain whose step list is empty or absent (both decode to a list
\* of length 0) is answered with status 400 and the message "no steps
\* provided"; no step span is opened and no step is applied.
C14_EmptyChainIsRejected ==
    \A r \in Reqs :
        (ChainReturned(r) /\ Len(ChainDecoded(r).req.Steps) = 0) =>
            /\ w[r].status = 400
            /\ Len(w[r].body) = 1
            /\ w[r].body[1].error = <<"no steps provided">>
            /\ StepSpans(r) = {}
            /\ Len(spans[r]) = h[r].span
            /\ h[r].results = <<>> /\ h[r].i = 0
            /\ \A j \in EffectsOf(r, "counter.add") : fx[r][j].a = "errors:chain"
            /\ EffectsOf(r, "histogram.record") = {}
            /\ EffectsOf(r, "gauge.record") = {}

\* C14 witness: a chain with an initial value and no steps was answered.
C14_Witness ==
    \E r \in Reqs :
        /\ ChainReturned(r) /\ Done(r)
        /\ h[r].body.steps = <<>> /\ h[r].body.initial = 2
        /\ w[r].status = 400

\* A number literal that no float64 holds: it denotes a value beyond the
\* range (JSON has no literal for NaN or an infinity).
OutOfRange(t) == t > MaxFloat

\* The handler of request r called its compute closure.
Computed(r) == EffectsOf(r, "compute") # {}

\* The handler of a binary operation has returned for request r.
BinaryReturned(r) == path[r] \in BinaryPaths /\ Returned(r)

\* C15 (as claimed): compute is never called with a NaN or infinite
\* operand, and a request that carries such an operand is answered with
\* status 400 and "invalid numeric input" before the computation starts.
C15_NonFiniteGetsInvalidNumericInput ==
    \A r \in Reqs :
        BinaryReturned(r) =>
            /\ Computed(r) => Finite(CalcDecoded(r).req.A) /\ Finite(CalcDecoded(r).req.B)
            /\ (h[r].body.ok /\ (OutOfRange(h[r].body.a) \/ OutOfRange(h[r].body.b))) =>
                  /\ ~Computed(r)
                  /\ w[r].status = 400
                  /\ Len(w[r].body) = 1
                  /\ w[r].body[1].error = <<"invalid numeric input">>

\* C15 (amended): compute is never called with a NaN or infinite operand:
\* a body with a number beyond the float64 range is rejected by the decoder,
\* with status 400 and "invalid request body", before the computation
\* starts and as malformed input (no operation sample, error counter only);
\* no body gets as far as the "invalid numeric input" check.
C15_NonFiniteIsRejectedByTheDecoder ==
    \A r \in Reqs :
        BinaryReturned(r) =>
            /\ Computed(r) => /\ ~CalcDecoded(r).err
                              /\ Finite(CalcDecoded(r).req.A)
                              /\ Finite(CalcDecoded(r).req.B)
            /\ (h[r].body.ok /\ (OutOfRange(h[r].body.a) \/ OutOfRange(h[r].body.b))) =>
                  /\ ~Computed(r)
                  /\ w[r].status = 400
                  /\ Len(w[r].body) = 1
                  /\ w[r].body[1].error = <<"invalid request body">>
                  /\ EffectsOf(r, "histogram.record") = {}
                  /\ EffectsOf(r, "gauge.record") = {}
                  /\ \A j \in EffectsOf(r, "counter.add") :
                        fx[r][j].a = "errors:" \o OpNameAt(path[r])
            /\ \A j \in DOMAIN w[r].body :
                  "error" \in DOMAIN w[r].body[j] =>
                      w[r].body[j].error # <<"invalid numeric input">>

\* C15 witness: a multiplication by a literal beyond the range was sent and
\* answered.
C15_Witness ==
    \E r \in Reqs :
        /\ path[r] = "/calculator/multiply" /\ Done(r)
        /\ h[r].body.ok /\ OutOfRange(h[r].body.b) /\ ~OutOfRange(h[r].body.a)
        /\ w[r].status = 400

\* LoggerWithTrace was called for the context of slot r.
LoggerWithTraceCalled(r) ==
    \E j \in DOMAIN fx[r] : fx[r][j] = Ef("logger", ctx[r].span, "LoggerWithTrace")

\* C16: LoggerWithTrace(ctx) returns the base Logger itself when ctx holds
\* no valid span, and otherwise a logger that adds the trace id and the span
\* id of the span ctx holds; the base logger is an initialised one.
C16_LoggerWithTraceResult ==
    \A r \in Reqs :
        LoggerWithTraceCalled(r) =>
            /\ "Logger" \in initialized
            /\ ctx[r].span = 0 => mwLogger[r] = Logger
            /\ ctx[r].span # 0 =>
                  /\ mwLogger[r].traced
                  /\ mwLogger[r].trace_id = spans[r][ctx[r].span].trace_id
                  /\ mwLogger[r].span_id = spans[r][ctx[r].span].span_id
                  /\ mwLogger[r] # Logger

\* C16 witness: one call was made with a context that holds no span next to
\* a list of spans, another with a context that holds the second of two
\* spans of different traces.
C16_Witness ==
    /\ \E r \in Reqs : /\ LoggerWithTraceCalled(r) /\ ctx[r].span = 0
                       /\ spans[r] # <<>> /\ ~mwLogger[r].traced
    /\ \E r \in Reqs : /\ LoggerWithTraceCalled(r) /\ ctx[r].span = 2
                       /\ spans[r][1].trace_id # spans[r][2].trace_id
                       /\ mwLogger[r].traced

\* The log records of request r that its handler emitted (all but the
\* completion record of LoggingMiddleware); each is emitted after the
\* handler opened its span.
HandlerLogs(r) == {j \in DOMAIN logs[r] : logs[r][j].msg # <<"request completed">>}

\* C17 (as claimed): every record handleBinaryOp or Chain emits after
\* opening its own span, the error record of RecordError included, carries
\* the trace id and the span id of that span.
C17_HandlerLogsCarryHandlerSpan ==
    \A r \in Reqs :
        h[r].entered =>
            \A j \in HandlerLogs(r) :
                /\ logs[r][j].logger.traced
                /\ logs[r][j].logger.trace_id = spans[r][h[r].span].trace_id
                /\ logs[r][j].logger.span_id = spans[r][h[r].span].span_id

\* The text cause occurs in the text msg (both are sequences of parts).
Contains(msg, cause) ==
    \E k \in 0..Len(msg) - Len(cause) : SubSeq(msg, k + 1, k + Len(cause)) = cause

\* The error records of request r.
ErrorLogs(r) == {j \in DOMAIN logs[r] : logs[r][j].level = "error"}

\* C18 (as claimed): the error message of a failure response never contains
\* the text of the internal cause; the cause is in the error record only.
C18_CauseIsNotEchoed ==
    \A r \in Reqs :
        (path[r] \in CalculatorPaths /\ Returned(r) /\ w[r].status = 400) =>
            /\ ErrorLogs(r) # {}
            /\ \A j \in ErrorLogs(r) :
                  /\ logs[r][j].fields.error # Nil
                  /\ \A d \in DOMAIN w[r].body :
                        ~Contains(w[r].body[d].error, logs[r][j].fields.error)

\* The kinds of effect that act on a span.
SpanEffects == {"span.start", "span.error", "span.status", "span.event", "span.end"}

\* C19: every span handleBinaryOp or Chain started, the handler's span and
\* each step span, is ended exactly once when the handler has returned (a
\* step span: when its iteration is over), never twice, and no attribute,
\* event, status or error is set on it after its end.
C19_SpansEndedOnceAndNotTouchedAfter ==
    \A r \in Reqs :
        h[r].entered =>
            \A j \in h[r].span..Len(spans[r]) :
                /\ spans[r][j].ended <= 1
                /\ spans[r][j].late = 0
                /\ Returned(r) => spans[r][j].ended = 1
                /\ j > h[r].span => spans[r][j].ended = 1
                /\ Cardinality({p \in EffectsOf(r, "span.end") : fx[r][p].i = j})
                       = spans[r][j].ended
                /\ \A p \in EffectsOf(r, "span.end") :
                      fx[r][p].i = j =>
                          \A q \in DOMAIN fx[r] :
                              q > p => ~(fx[r][q].k \in SpanEffects /\ fx[r][q].i = j)

\* C19 witness: of two requests handled together, one chain failed at its
\* first step and one chain succeeded; both are finished.
C19_Witness ==
    /\ \E r \in Reqs : /\ Done(r) /\ h[r].failedAt = 0
                       /\ spans[r][Len(spans[r])].ended = 1
    /\ \E r \in Reqs : /\ Done(r) /\ path[r] = "/calculator/chain" /\ w[r].status = 200
                       /\ Len(spans[r]) = h[r].span + Len(h[r].results)
                       /\ Len(h[r].results) > 0

\* The instrument an effect e records into ("" when e is no metric sample).
InstrumentOf(e) ==
    IF e.k = "counter.add" /\ e.a \in {"ops:" \o o : o \in OpAttrs} THEN "opsCounter"
    ELSE IF e.k = "counter.add" THEN "errorCounter"
    ELSE IF e.k = "histogram.record" THEN "opsHistogram"
    ELSE IF e.k = "gauge.record" THEN "resultGauge"
    ELSE ""

\* C20: connections are accepted only after InitLogger, InitTracing and
\* initMetrics (provider and the four calculator instruments) have succeeded;
\* when one of them fails the process panics and no request is ever served;
\* so every sample a handler records goes to a registered instrument.
C20_ServesOnlyAfterInit ==
    /\ (mainPc = "ListenAndServe" \/ srvPc # "none") => initialized = Globals
    /\ (\E r \in Reqs : pc[r] # "new") => srvPc # "none"
    /\ srvPc = "none" => \A r \in Reqs : fx[r] = <<>> /\ w[r] = NewResponseWriter
    /\ mainPc = "panic" => initialized # Globals
    /\ \A r \in Reqs : \A j \in DOMAIN fx[r] :
          /\ InstrumentOf(fx[r][j]) # "" => InstrumentOf(fx[r][j]) \in initialized
          /\ fx[r][j].k = "logger" => "Logger" \in initialized
          /\ fx[r][j].k = "span.start" => "TracerProvider" \in initialized

\* C20 witness: the process is serving and two requests were answered, one
\* that recorded a result and one that counted an error.
C20_Witness ==
    /\ mainPc = "serving"
    /\ \E r \in Reqs : Done(r) /\ \E j \in DOMAIN fx[r] : InstrumentOf(fx[r][j]) = "resultGauge"
    /\ \E r \in Reqs : Done(r) /\ \E j \in DOMAIN fx[r] : InstrumentOf(fx[r][j]) = "errorCounter"

\* The process has ended: main returned, or a goroutine panicked.
Ended == mainPc \in {"panic", "exited"} \/ srvPc = "panicked"

\* C21 (as claimed): once the signal has arrived the process ends, in every
\* interleaving of main and the serving goroutine, without a panic and with
\* the server shut down and the three deferred closures (metrics, tracing,
\* logger sync) run, in that order.
C21_GracefulShutdown ==
    (srvPc # "none" /\ Ended) =>
        /\ srvPc # "panicked"
        /\ mainPc = "exited"
        /\ drained = Deferred

\* The stage of a request an effect belongs to: 1 the request id, 2 the
\* opening of the root span, 3 the logger of LoggingMiddleware, 4 the
\* handler, 5 the completion record, 6 the closing of the root span.
StageOf(e) ==
    IF e.k = "id.new" \/ e = Ef("header", 0, "X-Request-ID") THEN 1
    ELSE IF e.k = "span.start" /\ e.a = "http_request" THEN 2
    ELSE IF e.k = "logger" /\ e.a = "LoggingMiddleware" THEN 3
    ELSE IF e = Ef("log", 0, "request completed") THEN 5
    ELSE IF e.k = "span.end" /\ e.a = "http_request" THEN 6
    ELSE 4

\* C22: for every request on a calculator route the stages run in this
\* order: the request id is stored in the context, the root span is opened,
\* LoggingMiddleware derives its logger (which carries the root span's ids),
\* the handler runs, the "request completed" record is emitted, the root
\* span is closed, exactly once.
C22_StagesRunInOrder ==
    \A r \in Reqs :
        path[r] \in CalculatorPaths =>
            LET st == [j \in DOMAIN fx[r] |-> StageOf(fx[r][j])]
                cnt == [n \in 1..6 |-> Cardinality({j \in DOMAIN st : st[j] = n})]
            IN  /\ \A j \in 1..Len(st) - 1 : st[j] <= st[j + 1]
                /\ \A n \in {2, 3, 5, 6} : cnt[n] <= 1
                /\ cnt[2] = 1 =>
                      /\ RequestIDFromContext(ctx[r]) = IdOf(r) /\ IdOf(r) # ""
                      /\ spans[r][1].name = "http_request" /\ spans[r][1].parent = 0
                      /\ ctx[r].span = 1
                /\ cnt[3] = 1 =>
                      /\ mwLogger[r].traced
                      /\ mwLogger[r].span_id = spans[r][1].span_id
                      /\ mwLogger[r].trace_id = spans[r][1].trace_id
                /\ h[r].entered => cnt[3] = 1
                /\ cnt[5] = 1 =>
                      /\ Returned(r)
                      /\ CompletionLogs(r) = {Len(logs[r])}
                      /\ logs[r][Len(logs[r])].logger = mwLogger[r]
                /\ spans[r] # <<>> => spans[r][1].ended = cnt[6]
                /\ (spans[r] # <<>> /\ spans[r][1].ended = 1) =>
                      cnt[5] = 1 /\ spans[r][1].late = 0
                /\ Done(r) => \A n \in 1..6 : cnt[n] >= 1

\* C22 witness: a chain of two steps went through every stage and is
\* finished, its root span closed.
C22_Witness ==
    \E r \in Reqs :
        /\ Done(r) /\ path[r] = "/calculator/chain" /\ w[r].status = 200
        /\ Len(h[r].results) = 2
        /\ spans[r][1].ended = 1 /\ CompletionLogs(r) # {}

\* The position in fx[r] of the one effect equal to e.
PosOf(r, e) == CHOOSE j \in DOMAIN fx[r] : fx[r][j] = e

\* The chains whose handler has recorded its final gauge sample.
GaugedChains == {o \in Reqs : Ef("gauge.record", 0, "chain") \in Range(fx[o])}

\* The body of request r is a chain of at least one step, all of which
\* apply, and the handler has returned.
CleanChainReturned(r) ==
    /\ ChainReturned(r)
    /\ Len(ChainDecoded(r).req.Steps) > 0
    /\ \A j \in 1..Len(ChainDecoded(r).req.Steps) : Applies(ChainDecoded(r).req.Steps, j)

\* C23: when every step of a chain applies, then after the last step and
\* before the response is written one result-gauge sample is recorded for
\* operation "chain" with the final value, the chain span gets one
\* "chain.complete" event with the final value and the number of input
\* steps, and the chain span is marked ok.
C23_ChainCompletion ==
    \A r \in Reqs :
        CleanChainReturned(r) =>
            LET req == ChainDecoded(r).req
                n == Len(h[r].body.steps)
                final == RunSteps(req.Initial, req.Steps, n)
                parent == spans[r][h[r].span]
                lastStep == h[r].span + n
                gauge == PosOf(r, Ef("gauge.record", 0, "chain"))
                event == PosOf(r, Ef("span.event", h[r].span, "chain.complete"))
                status == PosOf(r, Ef("span.status", h[r].span, "Ok"))
            IN  /\ Cardinality(EffectsOf(r, "gauge.record")) = 1
                /\ r \in GaugedChains
                /\ resultGauge["chain"].set
                /\ resultGauge["chain"].val \in {h[o].running : o \in GaugedChains}
                /\ GaugedChains = {r} => resultGauge["chain"].val = final
                /\ h[r].running = final
                /\ parent.events =
                      <<[name |-> "chain.complete",
                         attrs |-> ("final_result" :> FmtG(final))
                                       @@ ("total_steps" :> ToString(n))]>>
                /\ parent.status = "Ok" /\ parent.desc = <<>> /\ parent.errs = <<>>
                /\ Len(spans[r]) = lastStep
                /\ PosOf(r, Ef("span.end", lastStep, "")) < gauge
                /\ gauge < event /\ event < status
                /\ status < PosOf(r, Ef("writeheader", 200, ""))
                /\ \A j \in EffectsOf(r, "write") : status < j

\* C23 witness: a chain of three steps was applied and answered.
C23_Witness ==
    \E r \in Reqs :
        /\ CleanChainReturned(r) /\ Done(r)
        /\ Len(h[r].body.steps) = 3
        /\ resultGauge["chain"].set
        /\ spans[r][h[r].span].events # <<>>

\* C24: for every request passing through LoggingMiddleware exactly one
\* "request completed" record is emitted, after the wrapped handler has
\* returned, and it carries the request's method, path and request id.
C24_OneCompletionLog ==
    \A r \in Reqs :
        "LoggingMiddleware" \in Range(route[r]) =>
            /\ Cardinality(CompletionLogs(r)) <= 1
            /\ Cardinality(CompletionLogs(r)) =
                  Cardinality({j \in DOMAIN fx[r] : fx[r][j] = Ef("log", 0, "request completed")})
            /\ pc[r] \in {"TracingDone", "done"} => Cardinality(CompletionLogs(r)) = 1
            /\ \A j \in CompletionLogs(r) :
                  /\ Returned(r) /\ pc[r] # "LoggingDone"
                  /\ \A k \in HandlerLogs(r) : k < j
                  /\ \A k \in EffectsOf(r, "write") \cup EffectsOf(r, "writeheader") :
                        k < PosOf(r, Ef("log", 0, "request completed"))
                  /\ logs[r][j].level = "info"
                  /\ DOMAIN logs[r][j].fields = {"method", "path", "request_id"}
                  /\ logs[r][j].fields.method = "POST"
                  /\ logs[r][j].fields.path = path[r]
                  /\ logs[r][j].fields.request_id = IdOf(r)
                  /\ IdOf(r) # ""

\* C24 witness: two requests handled together are finished, one answered
\* with 400 and one with 200, each with its completion record.
C24_Witness ==
    /\ \E r \in Reqs : Done(r) /\ w[r].status = 400 /\ CompletionLogs(r) # {}
    /\ \E r \in Reqs : Done(r) /\ w[r].status = 200 /\ CompletionLogs(r) # {}
    /\ \A r \in Reqs : Len(logs[r]) >= 2

\* The ids ContextWithRequestID was called with for slot r.
StoredIds(r) == {fx[r][j].a : j \in EffectsOf(r, "ContextWithRequestID")}

\* C25: RequestIDFromContext(ContextWithRequestID(ctx, id)) is id for every
\* string id and every ctx, and RequestIDFromContext is "" for a context
\* that holds nothing under RequestIDKey or a value that is not a string.
C25_RequestIdRoundTrip ==
    \A r \in Reqs :
        EffectsOf(r, "RequestIDFromContext") # {} =>
            /\ StoredIds(r) # {} => StoredIds(r) = {h[r].requestID}
            /\ (StoredIds(r) = {} /\ ctx[r].rid.t # "string") => h[r].requestID = ""
            /\ (StoredIds(r) = {} /\ ctx[r].rid.t = "string") => h[r].requestID = ctx[r].rid.v

\* C25 witness: one slot read back "abc-123" stored over the int 42, the
\* other read a context that holds the int 42.
C25_Witness ==
    /\ \E r \in Reqs : /\ pc[r] = "done" /\ StoredIds(r) = {"abc-123"}
                       /\ h[r].requestID = "abc-123"
    /\ \E r \in Reqs : /\ pc[r] = "done" /\ StoredIds(r) = {}
                       /\ ctx[r].rid = [t |-> "int", v |-> "42"] /\ h[r].requestID = ""

\* The response of request r was written by RecordError, by WriteError, or
\* by a successful POST /calculator/add.
WrittenByTheThree(r) ==
    /\ Returned(r)
    /\ \/ RecordErrorCalled(r)
       \/ h[r].failedAt >= 0
       \/ path[r] = "/calculator/add" /\ w[r].status = 200

RECURSIVE Total(_, _)
Total(c, S) ==
    IF S = {} THEN 0
    ELSE LET o == CHOOSE x \in S : TRUE IN c[o] + Total(c, S \ {o})

\* The additions request r made to the error counter.
ErrorAdds(r) ==
    {j \in EffectsOf(r, "counter.add") : fx[r][j].a \in {"errors:" \o o : o \in OpAttrs}}

\* C27: after any sequence and any interleaving of calculator requests the
\* total of the error counter is the number of requests answered with
\* status 400: a failing request (decode failure, division by zero, empty
\* steps, failing chain step) adds exactly 1 and a successful one nothing.
C27_ErrorCounterCountsFailures ==
    /\ Total(errorCounter, OpAttrs) = Cardinality({r \in Reqs : w[r].status = 400})
    /\ \A r \in Reqs :
          /\ w[r].status = 400 => Cardinality(ErrorAdds(r)) = 1
          /\ w[r].status # 400 => ErrorAdds(r) = {}
          /\ (h[r].entered /\ Returned(r)) => w[r].status \in {200, 400}
          /\ \A j \in ErrorAdds(r) :
                errorCounter[CHOOSE o \in OpAttrs : fx[r][j].a = "errors:" \o o] >= 1

\* C27 witness: two requests handled together both failed, one in
\* RecordError and one at a chain step, next to each other in the counter.
C27_Witness ==
    /\ Total(errorCounter, OpAttrs) = 2
    /\ \E r \in Reqs : Done(r) /\ RecordErrorCalled(r)
    /\ \E r \in Reqs : Done(r) /\ h[r].failedAt >= 0

\* C28: for every calculator request the handler's own span (calculator.<op>
\* or calculator.chain) ends with status error if and only if the response
\* status is 400 and with status ok if and only if it is 200, and the
\* handlers produce no other response status.
C28_SpanStatusMatchesResponse ==
    \A r \in Reqs :
        (path[r] \in CalculatorPaths /\ Returned(r)) =>
            LET own == spans[r][h[r].span]
            IN  /\ own.name = "calculator." \o OpNameAt(path[r])
                /\ own.ended = 1
                /\ w[r].status \in {200, 400}
                /\ own.status \in {"Ok", "Error"}
                /\ own.status = "Error" <=> w[r].status = 400
                /\ own.status = "Ok" <=> w[r].status = 200
                /\ Cardinality(EffectsOf(r, "writeheader")) = 1

\* C28 witness: of two requests handled together one is a sum that left the
\* float64 range (status 200, span ok) and one was rejected (status 400,
\* span error).
C28_Witness ==
    /\ \E r \in Reqs : /\ Done(r) /\ path[r] \in BinaryPaths /\ w[r].status = 200
                       /\ w[r].body = <<>> /\ spans[r][h[r].span].status = "Ok"
    /\ \E r \in Reqs : /\ Done(r) /\ path[r] \in CalculatorPaths /\ w[r].status = 400
                       /\ spans[r][h[r].span].status = "Error"

\* The operations of attribute o that request r carried out: its binary
\* operation when that succeeded, the chain steps it applied.
OpsDone(r, o) ==
    IF path[r] \in BinaryPaths
    THEN IF Returned(r) /\ w[r].status = 200 /\ OpNameAt(path[r]) = o THEN 1 ELSE 0
    ELSE Cardinality({j \in DOMAIN h[r].results : h[r].results[j].Op = o})

\* The sum of f[r] over the requests in S.
RECURSIVE SumOver(_, _)
SumOver(f, S) ==
    IF S = {} THEN 0
    ELSE LET r == CHOOSE x \in S : TRUE IN f[r] + SumOver(f, S \ {r})

\* The additions request r made to the operations counter.
OpsAdds(r) == EffectsOf(r, "counter.add") \ ErrorAdds(r)

\* C29: after any sequence of calculator requests the total of the
\* operations counter is the number of successful binary operations plus
\* the number of chain steps that applied, the steps applied before a later
\* step of the chain failed included; a failing binary operation records no
\* operations-counter, duration or result-gauge sample.
C29_OperationsCounterCountsAppliedWork ==
    /\ \A o \in OpAttrs :
          /\ opsCounter[o] = SumOver([r \in Reqs |-> OpsDone(r, o)], Reqs)
          /\ opsHistogram[o] = opsCounter[o]
    /\ Total(opsCounter, OpAttrs) =
          SumOver([r \in Reqs |-> Cardinality(OpsAdds(r))], Reqs)
    /\ \A r \in Reqs :
          /\ (path[r] \in BinaryPaths /\ w[r].status = 400) =>
                /\ OpsAdds(r) = {}
                /\ EffectsOf(r, "histogram.record") = {}
                /\ EffectsOf(r, "gauge.record") = {}
          /\ h[r].failedAt >= 0 =>
                /\ Cardinality(OpsAdds(r)) = h[r].failedAt
                /\ Cardinality(EffectsOf(r, "histogram.record")) = h[r].failedAt
          /\ path[r] = "/calculator/chain" => Cardinality(OpsAdds(r)) = Len(h[r].results)

\* C29 witness: a chain applied two steps and failed at its third, and the
\* two samples are in the counter.
C29_Witness ==
    \E r \in Reqs :
        /\ Done(r) /\ h[r].failedAt = 2 /\ w[r].status = 400
        /\ Total(opsCounter, OpAttrs) = 2

\* The positions in fx[r] at which span j was started / ended.
StartsOf(r, j) == {p \in EffectsOf(r, "span.start") : fx[r][p].i = j}

EndsOf(r, j) == {p \in EffectsOf(r, "span.end") : fx[r][p].i = j}

\* C30: in Chain every step span is a direct child of the chain span, never
\* of an earlier step span; at most one step span is open at a time: step
\* i's span is ended before step i + 1's span is started; and every step
\* span is ended before the chain span is.
C30_StepSpansAreSiblingsInSequence ==
    \A r \in Reqs :
        (path[r] = "/calculator/chain" /\ h[r].entered) =>
            LET chain == h[r].span
            IN  /\ spans[r][chain].name = "calculator.chain"
                /\ \A j \in chain + 1..Len(spans[r]) :
                      /\ spans[r][j].parent = chain
                      /\ spans[r][j].trace_id = spans[r][chain].trace_id
                      /\ spans[r][j].attrs["chain.step.index"] = ToString(j - chain - 1)
                      /\ spans[r][j].ended = 1
                      /\ Cardinality(StartsOf(r, j)) = 1 /\ Cardinality(EndsOf(r, j)) = 1
                      /\ \A p \in StartsOf(r, j), q \in EndsOf(r, j) :
                            /\ p < q
                            /\ \A x \in p + 1..q - 1 : fx[r][x].k # "span.start"
                            /\ \A x \in StartsOf(r, chain) : x < p
                            /\ \A x \in EndsOf(r, chain) : q < x
                            /\ j < Len(spans[r]) => \A x \in StartsOf(r, j + 1) : q < x
                /\ Len(spans[r]) <= chain + Len(h[r].req.Steps)

\* C30 witness: a chain of three steps applied them all and is finished
\* with four spans of its own, the chain span ended last.
C30_Witness ==
    \E r \in Reqs :
        /\ Done(r) /\ path[r] = "/calculator/chain" /\ Len(h[r].results) = 3
        /\ Len(spans[r]) = h[r].span + 3
        /\ \A j \in h[r].span..Len(spans[r]) : spans[r][j].ended = 1

====
